---- MODULE Spec2Model ----
(***************************************************************************)
(* Verification model of the adaptive-racing telemetry programs.           *)
(*                                                                         *)
(* Spec           the CSV lap logger, src/f1_telemetry_logger.py: its      *)
(*                receive loop (main) and the four packet handlers.        *)
(* SpecListeners  the threaded listeners: F1TelemetryListener of           *)
(*                src/src/telemetry/listener.py and the ctypes             *)
(*                TelemetryListener of src/telemetry_listener.py.          *)
(*                                                                         *)
(* A datagram is a record: its byte length `len`, the header fields the    *)
(* code unpacks (fmt, pid, uid, pci) and the payload fields of its packet  *)
(* type.  A field read succeeds iff offset + size <= len, as               *)
(* struct.unpack_from does; the offsets are computed as the code computes  *)
(* them.                                                                   *)
(***************************************************************************)
EXTENDS Integers, Sequences, FiniteSets, TLC

VARIABLES
    \* ---- src/f1_telemetry_logger.py: module globals --------------------
    current_session_id,          \* None or the local session id (uuid4)
    last_processed_session_uid,  \* _internal_last_processed_session_uid_for_id_generation
    last_processed_session_type, \* _internal_last_processed_session_type_for_id_generation
    last_session_id_for_lap_reset_cache,
    player_car_index,
    current_track_name,
    current_race_car,
    current_session_type_str,
    current_weather_str,
    pending_lap_details,         \* dict in insertion order: Seq of [key, details]
    logged_laps_in_session,      \* set of (session id, lap number)
    csv_rows,                    \* rows appended to CSV_FILENAME, in order
    \* ---- main(): the receive loop ---------------------------------------
    pc,                          \* "off" | "start" | "recv" | "process" | "exited"
    data,                        \* the datagram returned by recvfrom
    exit_cause,                  \* "none" | "bind" | "interrupt" | "error"
    traffic,                     \* the kind of traffic the game sends in this run
    sock,                        \* main()'s socket: "none" | "open" | "closed"
    \* ---- src/src/telemetry/listener.py: F1TelemetryListener ------------
    latest_data,                 \* self.latest_data, a TelemetryData
    last_known_player_lap_num_from_lap_data,
    f1_running,                  \* self.running
    f1_pc,                       \* "off" | "recv" | "process" | "payload" | "timeout" | "done"
    f1_data,                     \* the datagram returned by recvfrom
    f1_whole,                    \* latest_data as the last whole datagram left it
    consumer_view,               \* what get_current_telemetry() last returned
    \* ---- src/telemetry_listener.py: TelemetryListener ------------------
    tl_running,                  \* self.running
    callbacks,                   \* self.callbacks: packet id -> callback
    registrations,               \* the calls of register_callback made, in order
    tl_pc,                       \* "off" | "recv" | "process" | "done"
    tl_data,                     \* the datagram returned by recvfrom
    invoked,                     \* the callback invocations made, in order
    \* ---- sockets and threads of the listeners ---------------------------
    f1_socket,                   \* F1TelemetryListener.socket: 0 (None) or a socket
    f1_sockets,                  \* the sockets start() created: "none" | "open" | "closed"
    f1_threads,                  \* the threads start() created: [pc, socket, data]
    tl_socket,                   \* TelemetryListener.socket: "none" | "open" | "closed"
    tl_stop,                     \* TelemetryListener.stop: "idle" | "join" | "returned"
    \* ---- src/src/app/telemetry/listener.py: TelemetryListener ----------
    app_running,                 \* self.running
    app_socket,                  \* self.socket: "none" (None) | "set"
    app_sock,                    \* the socket _listen created: "none" | "open" | "closed"
    app_thread,                  \* "unborn" | "socket" | "bind" | "test" | "recv" | "done" | "died"
    app_stop,                    \* stop(): "idle" | "close" | "join" | "returned"
    packet_count,                \* self.packet_count
    app_callbacks,               \* the calls of self.callback made
    \* ---- src/main.py: F1TelemetryApp ------------------------------------
    app,                         \* the lap-tracking attributes of F1TelemetryApp
    lap_packet,                  \* the PacketLapData _handle_lap_data was last called with
    \* ---- src/data_logger.py: DataLogger ---------------------------------
    data_logger                  \* F1TelemetryApp.data_logger

logger_vars == <<current_session_id, last_processed_session_uid,
                 last_processed_session_type, last_session_id_for_lap_reset_cache,
                 player_car_index, current_track_name, current_race_car,
                 current_session_type_str, current_weather_str,
                 pending_lap_details, logged_laps_in_session, csv_rows,
                 pc, data, exit_cause, traffic, sock>>

listener_vars == <<latest_data, last_known_player_lap_num_from_lap_data,
                   f1_running, f1_pc, f1_data, f1_whole, consumer_view,
                   tl_running, callbacks, registrations, tl_pc, tl_data, invoked>>

lifecycle_vars == <<f1_socket, f1_sockets, f1_threads, tl_socket, tl_stop,
                    app_running, app_socket, app_sock, app_thread, app_stop,
                    packet_count, app_callbacks>>

app_vars == <<app, lap_packet, data_logger>>

vars == <<logger_vars, listener_vars, lifecycle_vars, app_vars>>

-----------------------------------------------------------------------------
(* Bounds of the model *)

\* local session ids generated in one run
MaxSessions == 2
\* the loop stops receiving once this many rows have been written
MaxRows == 2
\* the ctypes listener stops receiving once this many callbacks have run
MaxCallbacks == 2
\* calls of register_callback made while the ctypes listener runs
MaxRegistrations == 2
\* calls of F1TelemetryListener.start, each creating a socket and a thread
MaxStarts == 2
\* the application's car-telemetry listener stops counting at this many packets
MaxPackets == 2
\* F1TelemetryApp stops handling packets once this many laps were reported
MaxLapTimes == 2
\* calls of DataLogger.record_telemetry made while recording
MaxRecords == 3
\* recording sessions started from the GUI
MaxRecordings == 1

-----------------------------------------------------------------------------
(* Program constants *)

None == -1

SUPPORTED_FORMAT == 2022
PACKET_HEADER_SIZE == 24
\* struct.calcsize('<IIHHfffBBBBBBBBBBBBBHHB'): the logger's format string
\* has 13 single-byte fields
LAP_DATA_SINGLE_CAR_SIZE == 42
\* sizeof(LapData): the entry the game sends has 14 single-byte fields
WIRE_LAP_DATA_SIZE == 43
LAP_HISTORY_ENTRY_SIZE == 11
SESSION_HISTORY_LEAD_DATA_SIZE == 7
PARTICIPANT_DATA_ENTRY_SIZE == 56
SESSION_DATA_SIZE == 8
CURRENT_LAP_NUM_OFFSET == 25
MAX_CARS == 22

\* TRACK_IDS.get(track_id, "Unknown Track"), restricted to the ids drawn
get_track_name_str(track_id) ==
    CASE track_id = 0  -> "Melbourne"
      [] track_id = 5  -> "Monaco"
      [] track_id = -1 -> "Unknown"
      [] OTHER         -> "Unknown Track"

\* SESSION_TYPES.get(session_type_id, "Unknown")
get_session_type_str(session_type_id) ==
    CASE session_type_id = 0  -> "Unknown"
      [] session_type_id = 10 -> "R"
      [] session_type_id = 13 -> "Time Trial"
      [] OTHER                -> "Unknown"

\* WEATHER_TYPES.get(weather_id, "Unknown Weather")
get_weather_str(weather_id) ==
    CASE weather_id = 0 -> "Clear"
      [] weather_id = 3 -> "Light Rain"
      [] OTHER          -> "Unknown Weather"

\* TEAM_IDS.get(team_id, "Unknown Car")
get_team_name_str(team_id) ==
    CASE team_id = 0 -> "Mercedes"
      [] team_id = 1 -> "Ferrari"
      [] OTHER       -> "Unknown Car"

-----------------------------------------------------------------------------
(* Seconds values: round(ms / 1000.0, 3) keeps the sign, the whole seconds *)
(* and the thousandths of an integer number of milliseconds.               *)

Abs(n) == IF n < 0 THEN 0 - n ELSE n

round_ms_to_sec(ms) ==
    [neg |-> ms < 0, whole |-> Abs(ms) \div 1000, milli |-> Abs(ms) % 1000]

ZeroSec == [neg |-> FALSE, whole |-> 0, milli |-> 0]

\* t < 0 for a seconds value
SecNegative(t) == t.neg /\ (t.whole > 0 \/ t.milli > 0)

\* n & mask # 0 for a one-bit mask
BitSet(n, mask) == (n \div mask) % 2 = 1

-----------------------------------------------------------------------------
(* Datagrams *)

NoSession == [weather |-> 0, session_type |-> 0, track_id |-> 0]
NoHistory == [car_idx |-> 0, num_laps |-> 0, entries |-> <<>>]

Dgram(len, fmt, pid, uid, pci, session, lap, part, hist) ==
    [len |-> len, fmt |-> fmt, pid |-> pid, uid |-> uid, pci |-> pci,
     session |-> session, lap |-> lap, part |-> part, hist |-> hist]

\* data[:0], also the value of `data` between two iterations
NoData == Dgram(0, 0, 0, 0, 0, NoSession, <<>>, <<>>, NoHistory)

\* struct.unpack_from(fmt, data, offset) raises struct.error unless the
\* buffer holds `size` bytes from `offset`
CanUnpack(d, offset, size) == offset + size <= d.len

\* one car's LapData as the game sends it; the fields not named are 0
LapEntry(last, pos, num) ==
    [last_lap_time_ms |-> last, car_position |-> pos, current_lap_num |-> num,
     pit_stop_should_serve_pen |-> 0]

Pow256(k) == CASE k = 0 -> 1 [] k = 1 -> 256 [] k = 2 -> 65536 [] k = 3 -> 16777216

\* byte o of a LapData entry: m_lastLapTimeInMS at 0..3 (little-endian),
\* m_carPosition at 24, m_currentLapNum at 25, m_pitStopShouldServePen at 42
LapEntryByte(e, o) ==
    CASE o \in 0..3 -> (e.last_lap_time_ms \div Pow256(o)) % 256
      [] o = 24     -> e.car_position
      [] o = 25     -> e.current_lap_num
      [] o = 42     -> e.pit_stop_should_serve_pen
      [] OTHER      -> 0

\* byte `offset` of a lap-data datagram: m_lapData[] follows the header
LapDataByte(d, offset) ==
    LET car == (offset - PACKET_HEADER_SIZE) \div WIRE_LAP_DATA_SIZE
        o == (offset - PACKET_HEADER_SIZE) % WIRE_LAP_DATA_SIZE
    IN IF car + 1 <= Len(d.lap) THEN LapEntryByte(d.lap[car + 1], o) ELSE 0

\* struct.unpack_from('<I', data, offset) and ('<B', data, offset)
UnpackUInt32(d, offset) ==
    LapDataByte(d, offset) + 256 * LapDataByte(d, offset + 1)
        + 65536 * LapDataByte(d, offset + 2) + 16777216 * LapDataByte(d, offset + 3)
UnpackUInt8(d, offset) == LapDataByte(d, offset)

HistEntry(t, s1, s2, s3, flags) ==
    [lap_time_ms |-> t, s1 |-> s1, s2 |-> s2, s3 |-> s3, flags |-> flags]

\* a consistent valid lap; an inconsistent lap whose direct sector 3 is
\* flagged valid; an inconsistent lap with no usable direct sector 3
EntryGood  == HistEntry(85000, 28000, 29000, 28000, 1)
EntryS3Dir == HistEntry(1000, 600, 600, 300, 8)
EntryS3Bad == HistEntry(1000, 600, 600, 0, 1)

SessionLen == PACKET_HEADER_SIZE + SESSION_DATA_SIZE
LapLen(cars) == PACKET_HEADER_SIZE + cars * WIRE_LAP_DATA_SIZE
ParticipantsLen(cars) == PACKET_HEADER_SIZE + 1 + cars * PARTICIPANT_DATA_ENTRY_SIZE
HistoryLen(laps) ==
    PACKET_HEADER_SIZE + SESSION_HISTORY_LEAD_DATA_SIZE + laps * LAP_HISTORY_ENTRY_SIZE

SessionDgram(len, uid, pci, weather, session_type, track_id) ==
    Dgram(len, SUPPORTED_FORMAT, 1, uid, pci,
          [weather |-> weather, session_type |-> session_type, track_id |-> track_id],
          <<>>, <<>>, NoHistory)

\* lap: m_lapData[0], m_lapData[1]
LapDgram(len, pci, lap) ==
    Dgram(len, SUPPORTED_FORMAT, 2, 7, pci, NoSession, lap, <<>>, NoHistory)

\* part: m_participants[0].m_teamId, m_participants[1].m_teamId
ParticipantsDgram(len, pci, part) ==
    Dgram(len, SUPPORTED_FORMAT, 4, 7, pci, NoSession, <<>>, part, NoHistory)

HistoryDgram(len, pci, car_idx, num_laps, entries) ==
    Dgram(len, SUPPORTED_FORMAT, 11, 7, pci, NoSession, <<>>, <<>>,
          [car_idx |-> car_idx, num_laps |-> num_laps, entries |-> entries])

\* car 0 runs first, car 1 second
LapArrays ==
    { <<LapEntry(85000, 1, n), LapEntry(85000, 2, n)>> : n \in 1..3 }
    \cup { <<LapEntry(0, 1, 2), LapEntry(85000, 2, 3)>> }

GoodLaps == <<EntryGood, EntryGood, EntryGood>>

\* A run of the game sends one of four kinds of traffic.
\*   "session": the session changes (UID, type, weather); one car.
SessionTraffic ==
    { SessionDgram(SessionLen, u, 0, s[1], s[2], s[3]) :
        u \in {7, 8}, s \in { <<0, 10, 0>>, <<3, 10, 0>>, <<0, 13, 5>> } }
    \cup { LapDgram(LapLen(2), 0, a) : a \in LapArrays }
    \cup { ParticipantsDgram(ParticipantsLen(2), 0, <<1, 200>>) }
    \cup { HistoryDgram(HistoryLen(3), 0, 0, n, GoodLaps) : n \in 1..2 }

\*   "player": one session; the header's player index and the car a
\*   history packet is about vary.
PlayerTraffic ==
    { SessionDgram(SessionLen, 7, p, 0, 10, 0) : p \in {0, 1, 255} }
    \cup { LapDgram(LapLen(2), p, a) : p \in {0, 1, 255}, a \in LapArrays }
    \cup { ParticipantsDgram(ParticipantsLen(2), p, <<1, 200>>) : p \in {0, 1, 255} }
    \cup { HistoryDgram(HistoryLen(3), c[1], c[2], n, GoodLaps) :
             c \in { <<0, 0>>, <<1, 1>>, <<0, 1>>, <<255, 0>> }, n \in 1..2 }

\*   "wire": one session, one car; buffer lengths, lap counts, history
\*   entries, packet types and the format value vary.
WireTraffic ==
    { SessionDgram(n, 7, 0, 0, 10, 0) : n \in {SessionLen, SessionLen - 1} }
    \cup { SessionDgram(SessionLen - 1, 8, 0, 3, 13, 5) }
    \cup { LapDgram(LapLen(2), 0, a) : a \in LapArrays }
    \cup { LapDgram(n, 0, <<LapEntry(85000, 1, 2), LapEntry(85000, 2, 2)>>) :
             n \in {PACKET_HEADER_SIZE + CURRENT_LAP_NUM_OFFSET,
                    PACKET_HEADER_SIZE + 3} }
    \cup { ParticipantsDgram(n, 0, <<1, 200>>) :
             n \in {PACKET_HEADER_SIZE, PACKET_HEADER_SIZE + 1, ParticipantsLen(1)} }
    \cup { HistoryDgram(HistoryLen(3), 0, 0, n, a) :
             n \in 0..3,
             a \in { GoodLaps, <<EntryS3Dir, EntryS3Bad, EntryGood>>,
                     <<EntryS3Bad, EntryS3Dir, EntryGood>> } }
    \cup { HistoryDgram(n, 0, 0, 2, GoodLaps) :
             n \in {HistoryLen(1), HistoryLen(0), HistoryLen(0) - 1} }
    \* car telemetry, which the logger does not consume; a runt
    \cup { Dgram(PACKET_HEADER_SIZE, SUPPORTED_FORMAT, 6, 7, 0, NoSession, <<>>, <<>>,
                 NoHistory),
           [SessionDgram(SessionLen, 8, 1, 3, 13, 5) EXCEPT !.len = PACKET_HEADER_SIZE - 1] }
    \* packets of every consumed type as sent by a game of another season
    \cup { [d EXCEPT !.fmt = 2021] :
             d \in { SessionDgram(SessionLen, 8, 1, 3, 13, 5),
                     LapDgram(LapLen(2), 1,
                              <<LapEntry(85000, 1, 2), LapEntry(85000, 2, 3)>>),
                     ParticipantsDgram(ParticipantsLen(2), 1, <<1, 200>>),
                     ParticipantsDgram(PACKET_HEADER_SIZE, 1, <<1, 200>>),
                     HistoryDgram(HistoryLen(3), 1, 1, 2, GoodLaps) } }

\*   "entries": one session, one car, one completed lap; the history
\*   entry of that lap ranges over consistent and inconsistent times and
\*   all combinations of the lap-valid and sector-3-valid bits.
EntryRange ==
    { HistEntry(t, s1, s2, s3, f) :
        t \in {0, 1000, 2000}, s1 \in {0, 600, 1500}, s2 \in {0, 600},
        s3 \in {0, 300}, f \in {0, 1, 8, 9} }

EntriesTraffic ==
    { SessionDgram(SessionLen, 7, 0, 0, 10, 0),
      LapDgram(LapLen(1), 0, <<LapEntry(85000, 1, 2)>>) }
    \cup { HistoryDgram(HistoryLen(1), 0, 0, 1, <<e>>) : e \in EntryRange }

Traffics == {"session", "player", "wire", "entries"}

TrafficDatagrams(t) ==
    CASE t = "session" -> SessionTraffic
      [] t = "player"  -> PlayerTraffic
      [] t = "wire"    -> WireTraffic
      [] t = "entries" -> EntriesTraffic

-----------------------------------------------------------------------------
(* The logger: src/f1_telemetry_logger.py *)

\* the module globals as one record, threaded through the handlers
LoggerState ==
    [current_session_id |-> current_session_id,
     last_processed_session_uid |-> last_processed_session_uid,
     last_processed_session_type |-> last_processed_session_type,
     last_session_id_for_lap_reset_cache |-> last_session_id_for_lap_reset_cache,
     player_car_index |-> player_car_index,
     current_track_name |-> current_track_name,
     current_race_car |-> current_race_car,
     current_session_type_str |-> current_session_type_str,
     current_weather_str |-> current_weather_str,
     pending_lap_details |-> pending_lap_details,
     logged_laps_in_session |-> logged_laps_in_session,
     csv_rows |-> csv_rows,
     raised |-> FALSE]

\* mutant: the format value is not checked
FormatSupported_AnyFormat(fmt) == fmt = fmt

\* packet_format != 2022 is dropped
FormatSupported(fmt) == fmt = SUPPORTED_FORMAT

\* mutant: any header index is taken
ValidCarIndex_Any(p) == p = p

\* 0 <= p_car_index < 22
ValidCarIndex(p) == 0 <= p /\ p < MAX_CARS

\* the header's player index replaces the stored one when it is valid
UpdatePlayerCarIndex(st, d) ==
    IF ValidCarIndex(d.pci) THEN [st EXCEPT !.player_car_index = d.pci] ELSE st

\* str(uuid.uuid4()): an id no earlier session of this run has
uuid4(st) ==
    IF st.current_session_id = None THEN 1 ELSE st.current_session_id + 1

\* mutant: every session packet starts a new session
NewSessionDetected_Always(st, session_uid, session_type) ==
    session_uid = session_uid

\* mutant: only the session UID is compared
NewSessionDetected_UidOnly(st, session_uid, session_type) ==
    session_uid # st.last_processed_session_uid

\* session_uid or session_type differs from the last processed pair
NewSessionDetected(st, session_uid, session_type) ==
    \/ session_uid # st.last_processed_session_uid
    \/ session_type # st.last_processed_session_type

process_session_packet(st, d) ==
    IF ~FormatSupported(d.fmt) THEN st
    ELSE
      LET st1 == UpdatePlayerCarIndex(st, d) IN
      IF ~CanUnpack(d, PACKET_HEADER_SIZE, SESSION_DATA_SIZE) THEN st1
      ELSE
        LET st2 == IF NewSessionDetected(st1, d.uid, d.session.session_type)
                   THEN [st1 EXCEPT
                           !.current_session_id = uuid4(st1),
                           !.last_processed_session_uid = d.uid,
                           !.last_processed_session_type = d.session.session_type]
                   ELSE st1
        IN [st2 EXCEPT
              !.current_track_name = get_track_name_str(d.session.track_id),
              !.current_session_type_str = get_session_type_str(d.session.session_type),
              !.current_weather_str = get_weather_str(d.session.weather)]

process_participants_packet(st, d) ==
    IF st.player_car_index = None THEN st
    ELSE IF ~FormatSupported(d.fmt) THEN st
    ELSE
      LET st1 == UpdatePlayerCarIndex(st, d)
          num_active_cars_offset == PACKET_HEADER_SIZE
          offset == num_active_cars_offset + 1
                      + st1.player_car_index * PARTICIPANT_DATA_ENTRY_SIZE
      IN
      \* m_numActiveCars is unpacked outside any try block
      IF ~CanUnpack(d, num_active_cars_offset, 1) THEN [st1 EXCEPT !.raised = TRUE]
      ELSE IF offset + PARTICIPANT_DATA_ENTRY_SIZE > d.len THEN st1
      ELSE [st1 EXCEPT !.current_race_car =
                           get_team_name_str(d.part[st1.player_car_index + 1])]

\* mutant: the session id is not required
TrackerReady_IndexOnly(st) == st.player_car_index # None

\* not (player_car_index is None or current_session_id is None)
TrackerReady(st) == st.player_car_index # None /\ st.current_session_id # None

\* mutant: the logged laps are not consulted
NotYetTracked_PendingOnly(st, key) ==
    \A i \in 1..Len(st.pending_lap_details) : st.pending_lap_details[i].key # key

\* the key is neither pending nor logged
NotYetTracked(st, key) ==
    /\ \A i \in 1..Len(st.pending_lap_details) : st.pending_lap_details[i].key # key
    /\ key \notin st.logged_laps_in_session

\* player_last_lap_time_ms > 0 and player_current_lap_num > 1
LapJustCompleted(last_lap_time_ms, current_lap_num) ==
    last_lap_time_ms > 0 /\ current_lap_num > 1

process_lap_data_packet(st, d) ==
    IF ~TrackerReady(st) THEN st
    ELSE IF ~FormatSupported(d.fmt) \/ d.pid # 2 THEN st
    ELSE IF ~ValidCarIndex(d.pci) THEN st
    ELSE
      LET st1 == UpdatePlayerCarIndex(st, d)
          offset_to_player_lap_data ==
              PACKET_HEADER_SIZE + st1.player_car_index * LAP_DATA_SINGLE_CAR_SIZE
      IN
      IF ~(/\ CanUnpack(d, offset_to_player_lap_data, 4)
           /\ CanUnpack(d, offset_to_player_lap_data + CURRENT_LAP_NUM_OFFSET, 1))
      THEN st1
      ELSE
        LET player_last_lap_time_ms == UnpackUInt32(d, offset_to_player_lap_data)
            player_current_lap_num ==
                UnpackUInt8(d, offset_to_player_lap_data + CURRENT_LAP_NUM_OFFSET)
            pending_key == <<st1.current_session_id, player_current_lap_num - 1>>
        IN
        IF /\ LapJustCompleted(player_last_lap_time_ms, player_current_lap_num)
           /\ NotYetTracked(st1, pending_key)
        THEN [st1 EXCEPT !.pending_lap_details =
                 Append(@, [key |-> pending_key,
                            details |-> [session_type |-> st1.current_session_type_str,
                                         track_name |-> st1.current_track_name,
                                         race_car |-> st1.current_race_car,
                                         weather |-> st1.current_weather_str]])]
        ELSE st1

\* mutant: the calculated sector 3 is kept when it is negative
s3_final_time_sec_NoFallback(e) ==
    round_ms_to_sec(e.lap_time_ms - (e.s1 + e.s2))

\* mutant: the direct sector 3 is used whatever its validity bit
s3_final_time_sec_IgnoresValidity(e) ==
    LET s3_calculated_sec == round_ms_to_sec(e.lap_time_ms - (e.s1 + e.s2))
    IN IF SecNegative(s3_calculated_sec)
       THEN IF e.s3 > 0 THEN round_ms_to_sec(e.s3) ELSE ZeroSec
       ELSE s3_calculated_sec

\* the sector-3 value of the row written for a history entry
s3_final_time_sec(e) ==
    LET s3_calculated_ms == e.lap_time_ms - (e.s1 + e.s2)
        s3_calculated_sec == round_ms_to_sec(s3_calculated_ms)
        s3_direct_is_valid_sector == BitSet(e.flags, 8)
    IN IF SecNegative(s3_calculated_sec)
       THEN IF s3_direct_is_valid_sector /\ e.s3 > 0
            THEN round_ms_to_sec(e.s3)
            ELSE ZeroSec
       ELSE s3_calculated_sec

\* (lap_valid_bit_flags & 0x01) != 0
is_valid_lap(flags) == BitSet(flags, 1)

\* mutant: the row takes the context current when the history packet arrives
log_entry_CurrentContext(p, e) ==
    [session_id |-> p.key[1],
     session_type |-> current_session_type_str,
     track_name |-> current_track_name,
     race_car |-> current_race_car,
     weather |-> current_weather_str,
     lap_number |-> p.key[2],
     s1 |-> round_ms_to_sec(e.s1),
     s2 |-> round_ms_to_sec(e.s2),
     s3 |-> s3_final_time_sec(e),
     total |-> round_ms_to_sec(e.lap_time_ms),
     valid |-> is_valid_lap(e.flags)]

\* the tuple handed to log_lap_data_to_csv
log_entry(p, e) ==
    [session_id |-> p.key[1],
     session_type |-> p.details.session_type,
     track_name |-> p.details.track_name,
     race_car |-> p.details.race_car,
     weather |-> p.details.weather,
     lap_number |-> p.key[2],
     s1 |-> round_ms_to_sec(e.s1),
     s2 |-> round_ms_to_sec(e.s2),
     s3 |-> s3_final_time_sec(e),
     total |-> round_ms_to_sec(e.lap_time_ms),
     valid |-> is_valid_lap(e.flags)]

\* the car the history packet is taken to be about
history_car_idx(d) == d.pci

\* mutant: the packet's lap count is not consulted
LapInHistory_AnyCount(lap_num, num_laps_in_history) ==
    0 <= lap_num - 1 /\ num_laps_in_history = num_laps_in_history

\* 0 <= history_lap_index < num_laps_in_history
LapInHistory(lap_num, num_laps_in_history) ==
    0 <= lap_num - 1 /\ lap_num - 1 < num_laps_in_history

\* the pending lap is of the current session, within the packet's lap
\* count, and its history entry can be unpacked
FinalizedByPacket(st, d, p) ==
    /\ p.key[1] = st.current_session_id
    /\ LapInHistory(p.key[2], d.hist.num_laps)
    /\ CanUnpack(d, PACKET_HEADER_SIZE + SESSION_HISTORY_LEAD_DATA_SIZE
                      + (p.key[2] - 1) * LAP_HISTORY_ENTRY_SIZE,
                 LAP_HISTORY_ENTRY_SIZE)

\* mutant: every lap within the packet's lap count is finalized, pending
\* or not
process_session_history_packet_AllLaps(st, d) ==
    IF ~TrackerReady(st) THEN st
    ELSE IF ~FormatSupported(d.fmt) \/ d.pid # 11 THEN st
    ELSE IF history_car_idx(d) # st.player_car_index THEN st
    ELSE IF ~CanUnpack(d, PACKET_HEADER_SIZE, SESSION_HISTORY_LEAD_DATA_SIZE) THEN st
    ELSE
      LET laps == { n \in 1..Len(d.hist.entries) :
                      /\ LapInHistory(n, d.hist.num_laps)
                      /\ <<st.current_session_id, n>> \notin st.logged_laps_in_session
                      /\ CanUnpack(d, PACKET_HEADER_SIZE + SESSION_HISTORY_LEAD_DATA_SIZE
                                        + (n - 1) * LAP_HISTORY_ENTRY_SIZE,
                                   LAP_HISTORY_ENTRY_SIZE) }
          details == [session_type |-> st.current_session_type_str,
                      track_name |-> st.current_track_name,
                      race_car |-> st.current_race_car,
                      weather |-> st.current_weather_str]
          Listed(n) == n \in laps
          Kept(p) == ~(p.key[1] = st.current_session_id /\ p.key[2] \in laps)
          done == SelectSeq([n \in 1..Len(d.hist.entries) |-> n], Listed)
      IN [st EXCEPT
            !.csv_rows = @ \o [i \in 1..Len(done) |->
                                  log_entry([key |-> <<st.current_session_id, done[i]>>,
                                             details |-> details],
                                            d.hist.entries[done[i]])],
            !.logged_laps_in_session =
                @ \cup { <<st.current_session_id, n>> : n \in laps },
            !.pending_lap_details = SelectSeq(@, Kept)]

process_session_history_packet(st, d) ==
    IF ~TrackerReady(st) THEN st
    ELSE IF ~FormatSupported(d.fmt) \/ d.pid # 11 THEN st
    ELSE IF history_car_idx(d) # st.player_car_index THEN st
    ELSE IF ~CanUnpack(d, PACKET_HEADER_SIZE, SESSION_HISTORY_LEAD_DATA_SIZE) THEN st
    ELSE
      LET Hit(p) == FinalizedByPacket(st, d, p)
          Miss(p) == ~FinalizedByPacket(st, d, p)
          done == SelectSeq(st.pending_lap_details, Hit)
      IN [st EXCEPT
            !.csv_rows = @ \o [i \in 1..Len(done) |->
                                  log_entry(done[i], d.hist.entries[done[i].key[2]])],
            !.logged_laps_in_session = @ \cup { done[i].key : i \in 1..Len(done) },
            !.pending_lap_details = SelectSeq(@, Miss)]

\* mutant: the tables are not cleared when the session id changes
main_iteration_KeepsLaps(st, d) ==
    IF d.len = 0 \/ d.len < PACKET_HEADER_SIZE THEN st
    ELSE IF ~FormatSupported(d.fmt) THEN st
    ELSE
      LET st1 == UpdatePlayerCarIndex(st, d) IN
      CASE d.pid = 1 ->
             LET st2 == process_session_packet(st1, d) IN
             [st2 EXCEPT !.last_session_id_for_lap_reset_cache = st2.current_session_id]
        [] d.pid = 2  -> process_lap_data_packet(st1, d)
        [] d.pid = 4  -> process_participants_packet(st1, d)
        [] d.pid = 11 -> process_session_history_packet(st1, d)
        [] OTHER      -> st1

\* one iteration of main()'s loop body on the datagram received
main_iteration(st, d) ==
    IF d.len = 0 \/ d.len < PACKET_HEADER_SIZE THEN st
    ELSE IF ~FormatSupported(d.fmt) THEN st
    ELSE
      LET st1 == UpdatePlayerCarIndex(st, d) IN
      CASE d.pid = 1 ->
             LET st2 == process_session_packet(st1, d) IN
             IF st2.current_session_id # st2.last_session_id_for_lap_reset_cache
             THEN [st2 EXCEPT
                     !.logged_laps_in_session = {},
                     !.pending_lap_details = <<>>,
                     !.last_session_id_for_lap_reset_cache = st2.current_session_id]
             ELSE st2
        [] d.pid = 2  -> process_lap_data_packet(st1, d)
        [] d.pid = 4  -> process_participants_packet(st1, d)
        [] d.pid = 11 -> process_session_history_packet(st1, d)
        [] OTHER      -> st1

-----------------------------------------------------------------------------
(* Datagrams as the threaded listeners see them: header fields and the     *)
(* payload bytes (payload[i] of the code is payload[i + 1] here).          *)

\* an IEEE float is kept as its four little-endian bytes; 0.0 is
F32Zero == <<0, 0, 0, 0>>

LDgram(len, fmt, pid, pci, time, payload) ==
    [len |-> len, fmt |-> fmt, pid |-> pid, pci |-> pci, time |-> time,
     payload |-> payload]

\* a datagram with a full header followed by `payload`
Wire(fmt, pid, pci, time, payload) ==
    LDgram(PACKET_HEADER_SIZE + Len(payload), fmt, pid, pci, time, payload)

NoLData == LDgram(0, 0, 0, 0, F32Zero, <<>>)

\* PacketSessionData after the header, cut to n bytes: m_weather at 0,
\* m_airTemperature at 2, m_sessionType at 6, m_trackId at 7, the low byte of
\* m_sessionDuration at 11
SessionPayload(n, weather, air_temperature, session_type, track_id, duration) ==
    [i \in 1..n |-> CASE i = 1  -> weather
                      [] i = 3  -> air_temperature
                      [] i = 7  -> session_type
                      [] i = 8  -> track_id
                      [] i = 12 -> duration
                      [] OTHER  -> 0]

\* a LapData entry as bytes, with m_currentLapTimeInMS (4..7, one byte used),
\* m_sector (28) and m_currentLapInvalid (29) besides the fields of LapEntry
LapEntryBytes(e, cur_ms, sector, invalid) ==
    [o \in 0..(WIRE_LAP_DATA_SIZE - 1) |->
        CASE o = 4  -> cur_ms
          [] o = 28 -> sector
          [] o = 29 -> invalid
          [] OTHER  -> LapEntryByte(e, o)]

\* the same with the four bytes of m_totalDistance (offsets 16..19)
LapEntryBytesAt(e, cur_ms, sector, invalid, total_distance) ==
    [o \in 0..(WIRE_LAP_DATA_SIZE - 1) |->
        IF o \in 16..19 THEN total_distance[o - 15]
        ELSE LapEntryBytes(e, cur_ms, sector, invalid)[o]]

\* m_lapData[] of `cars` equal-shaped cars, cut to n bytes
LapPayload(n, entries) ==
    [i \in 1..n |->
        LET car == (i - 1) \div WIRE_LAP_DATA_SIZE
            o == (i - 1) % WIRE_LAP_DATA_SIZE
        IN IF car + 1 <= Len(entries) THEN entries[car + 1][o] ELSE 0]

\* sizeof(CarTelemetryData)
WIRE_CAR_TELEMETRY_SIZE == 60

\* m_carTelemetryData[]: per car m_speed (0..1), m_throttle (2..5, one byte
\* used), m_gear (15), m_engineRPM (16..17)
TelemetryPayload(n, cars) ==
    [i \in 1..n |->
        LET car == (i - 1) \div WIRE_CAR_TELEMETRY_SIZE
            o == (i - 1) % WIRE_CAR_TELEMETRY_SIZE
        IN IF car + 1 > Len(cars) THEN 0
           ELSE CASE o = 0  -> cars[car + 1].speed % 256
                  [] o = 1  -> cars[car + 1].speed \div 256
                  [] o = 5  -> cars[car + 1].throttle
                  [] o = 15 -> cars[car + 1].gear
                  [] o = 16 -> cars[car + 1].rpm % 256
                  [] o = 17 -> cars[car + 1].rpm \div 256
                  [] OTHER  -> 0]

\* m_numActiveCars, then 56-byte ParticipantData: m_networkId at 2,
\* m_teamId at 3
ParticipantsPayload(n, num_active, cars) ==
    [i \in 1..n |->
        IF i = 1 THEN num_active
        ELSE LET car == (i - 2) \div PARTICIPANT_DATA_ENTRY_SIZE
                 o == (i - 2) % PARTICIPANT_DATA_ENTRY_SIZE
             IN IF car + 1 > Len(cars) THEN 0
                ELSE CASE o = 2 -> cars[car + 1].network_id
                       [] o = 3 -> cars[car + 1].team_id
                       [] OTHER -> 0]

\* an event packet: the four code bytes, then the details the listener
\* expects of "LAFN": vehicle index, lap time (uint32), sector 1 and 2 (uint16)
EventPayload(n, code, vehicle_idx, lap_time_ms, s1_ms, s2_ms) ==
    [i \in 1..n |->
        CASE i \in 1..4   -> code[i]
          [] i = 5        -> vehicle_idx
          [] i \in 6..9   -> (lap_time_ms \div Pow256(i - 6)) % 256
          [] i = 10       -> s1_ms % 256
          [] i = 11       -> s1_ms \div 256
          [] i = 12       -> s2_ms % 256
          [] i = 13       -> s2_ms \div 256
          [] OTHER        -> 0]

\* "LAFN" and "SSTA" in ASCII
CodeLAFN == <<76, 65, 70, 78>>
CodeSSTA == <<83, 83, 84, 65>>

\* byte o of an 11-byte LapHistoryData entry
HistEntryByte(e, o) ==
    CASE o \in 0..3 -> (e.lap_time_ms \div Pow256(o)) % 256
      [] o = 4      -> e.s1 % 256
      [] o = 5      -> e.s1 \div 256
      [] o = 6      -> e.s2 % 256
      [] o = 7      -> e.s2 \div 256
      [] o = 8      -> e.s3 % 256
      [] o = 9      -> e.s3 \div 256
      [] o = 10     -> e.flags

\* PacketSessionHistoryData after the header: m_carIdx, m_numLaps, five
\* more lead bytes, then m_lapHistoryData[]
HistoryPayload(n, car_idx, num_laps, entries) ==
    [i \in 1..n |->
        IF i = 1 THEN car_idx
        ELSE IF i = 2 THEN num_laps
        ELSE IF i <= SESSION_HISTORY_LEAD_DATA_SIZE THEN 0
        ELSE LET k == (i - 1 - SESSION_HISTORY_LEAD_DATA_SIZE) \div LAP_HISTORY_ENTRY_SIZE
                 o == (i - 1 - SESSION_HISTORY_LEAD_DATA_SIZE) % LAP_HISTORY_ENTRY_SIZE
             IN IF k + 1 <= Len(entries) THEN HistEntryByte(entries[k + 1], o) ELSE 0]

-----------------------------------------------------------------------------
(* src/src/telemetry/listener.py: F1TelemetryListener *)

\* the name tables; an id outside a table gives f"Unknown (...)", kept here
\* without the id (the id itself is stored next to the name)
F1_TRACK_IDS(id) ==
    CASE id = 0 -> "Melbourne" [] id = 1 -> "Paul Ricard" [] id = 2 -> "Shanghai"
      [] id = 3 -> "Sakhir (Bahrain)" [] id = 4 -> "Catalunya" [] id = 5 -> "Monaco"
      [] id = 6 -> "Montreal" [] id = 7 -> "Silverstone" [] id = 8 -> "Hockenheim"
      [] id = 9 -> "Hungaroring" [] id = 10 -> "Spa" [] id = 11 -> "Monza"
      [] id = 12 -> "Singapore" [] id = 13 -> "Suzuka" [] id = 14 -> "Abu Dhabi"
      [] id = 15 -> "Texas" [] id = 16 -> "Brazil" [] id = 17 -> "Austria"
      [] id = 18 -> "Sochi" [] id = 19 -> "Mexico" [] id = 20 -> "Baku (Azerbaijan)"
      [] id = 21 -> "Sakhir Short" [] id = 22 -> "Silverstone Short"
      [] id = 23 -> "Texas Short" [] id = 24 -> "Suzuka Short" [] id = 25 -> "Hanoi"
      [] id = 26 -> "Zandvoort" [] id = 27 -> "Imola" [] id = 28 -> "Portimao"
      [] id = 29 -> "Jeddah" [] id = 30 -> "Miami" [] id = 31 -> "Las Vegas"
      [] id = 32 -> "Qatar" [] OTHER -> "Unknown Track"

F1_SESSION_TYPES(id) ==
    CASE id = 0 -> "Unknown" [] id = 1 -> "P1" [] id = 2 -> "P2" [] id = 3 -> "P3"
      [] id = 4 -> "Short P" [] id = 5 -> "Q1" [] id = 6 -> "Q2" [] id = 7 -> "Q3"
      [] id = 8 -> "Short Q" [] id = 9 -> "OSQ" [] id = 10 -> "Race"
      [] id = 11 -> "Race 2" [] id = 12 -> "Race 3" [] id = 13 -> "Time Trial"
      [] OTHER -> "Unknown"

F1_WEATHER_IDS(id) ==
    CASE id = 0 -> "Clear" [] id = 1 -> "Light Cloud" [] id = 2 -> "Overcast"
      [] id = 3 -> "Light Rain" [] id = 4 -> "Heavy Rain" [] id = 5 -> "Storm"
      [] OTHER -> "Unknown"

F1_CAR_IDS(id) ==
    CASE id = 0 -> "Mercedes" [] id = 1 -> "Ferrari" [] id = 2 -> "Red Bull Racing"
      [] id = 3 -> "Williams" [] id = 4 -> "Aston Martin" [] id = 5 -> "Alpine"
      [] id = 6 -> "AlphaTauri" [] id = 7 -> "Haas" [] id = 8 -> "McLaren"
      [] id = 9 -> "Alfa Romeo" [] id = 85 -> "Mercedes 2020"
      [] OTHER -> "Unknown Car"

\* CompletedLap; NoLap stands for None in newly_completed_lap_event
CompletedLap(lap_number, lap_time_ms, s1, s2, s3, is_valid, is_event_lap) ==
    [lap_number |-> lap_number, lap_time_ms |-> lap_time_ms,
     sector1_time_ms |-> s1, sector2_time_ms |-> s2, sector3_time_ms |-> s3,
     is_valid |-> is_valid, is_event_lap |-> is_event_lap]

NoLap == CompletedLap(None, 0, 0, 0, 0, FALSE, FALSE)

\* x / 1000.0 for a millisecond count
ms_to_sec(ms) == [whole |-> ms \div 1000, milli |-> ms % 1000]

\* TelemetryData()
TelemetryData ==
    [speed |-> 0, engine_rpm |-> 0, throttle |-> F32Zero, brake |-> F32Zero,
     steering |-> F32Zero, gear |-> 0,
     session_active |-> FALSE, session_type_id |-> 0, session_type_str |-> "N/A",
     track_id |-> -1, track_name |-> "N/A", weather_id |-> 0, weather_str |-> "N/A",
     player_car_index |-> -1, car_name |-> "N/A", session_time_elapsed |-> F32Zero,
     current_lap_num |-> 0, current_lap_time_sec |-> ms_to_sec(0),
     current_lap_invalid |-> FALSE, current_sector |-> 0,
     current_sector1_time_ms |-> 0, current_sector2_time_ms |-> 0,
     completed_laps_history |-> <<>>, newly_completed_lap_event |-> NoLap]

\* reads of the payload: payload[i] raises IndexError and struct.unpack of a
\* short slice raises struct.error unless the bytes are there
HasBytes(payload, i, size) == i + size <= Len(payload)
U8(payload, i) == payload[i + 1]
S8(payload, i) == IF payload[i + 1] >= 128 THEN payload[i + 1] - 256 ELSE payload[i + 1]
U16(payload, i) == payload[i + 1] + 256 * payload[i + 2]
U32(payload, i) ==
    payload[i + 1] + 256 * payload[i + 2] + 65536 * payload[i + 3]
        + 16777216 * payload[i + 4]
F32(payload, i) == <<payload[i + 1], payload[i + 2], payload[i + 3], payload[i + 4]>>

\* the listener object while one datagram is handled
F1State(ld, last_known) ==
    [latest_data |-> ld, last_known_player_lap_num_from_lap_data |-> last_known,
     raised |-> FALSE]

F1_LAP_INFO_SIZE == 43
F1_CAR_TELEMETRY_DATA_SIZE == 58
F1_LAP_HISTORY_ENTRY_SIZE == 23

\* _process_packet, packet id 1
f1_session(st, payload) ==
    LET st1 == IF st.latest_data.session_active THEN st
               ELSE [st EXCEPT !.latest_data.session_active = TRUE,
                               !.latest_data.completed_laps_history = <<>>,
                               !.last_known_player_lap_num_from_lap_data = 0]
    IN
    IF ~HasBytes(payload, 0, 1) THEN [st1 EXCEPT !.raised = TRUE]
    ELSE LET st2 == [st1 EXCEPT !.latest_data.weather_id = U8(payload, 0)] IN
    IF ~HasBytes(payload, 2, 1) THEN [st2 EXCEPT !.raised = TRUE]
    ELSE LET st3 == [st2 EXCEPT !.latest_data.track_id = S8(payload, 2)] IN
    IF ~HasBytes(payload, 11, 1) THEN [st3 EXCEPT !.raised = TRUE]
    ELSE [st3 EXCEPT
            !.latest_data.session_type_id = U8(payload, 11),
            !.latest_data.weather_str = F1_WEATHER_IDS(st3.latest_data.weather_id),
            !.latest_data.track_name = F1_TRACK_IDS(st3.latest_data.track_id),
            !.latest_data.session_type_str = F1_SESSION_TYPES(U8(payload, 11))]

\* _process_packet, packet id 4
f1_participants(st, payload, player_car_idx) ==
    IF ~HasBytes(payload, 0, 1) THEN [st EXCEPT !.raised = TRUE]
    ELSE LET num_active_cars == U8(payload, 0)
             participant_offset == 1 + player_car_idx * PARTICIPANT_DATA_ENTRY_SIZE
         IN IF /\ player_car_idx < num_active_cars
               /\ participant_offset + 48 < Len(payload)
            THEN [st EXCEPT !.latest_data.car_name =
                                F1_CAR_IDS(U8(payload, participant_offset + 2))]
            ELSE st

\* _process_packet, packet id 2
f1_lap_data(st, payload, player_car_idx) ==
    LET lap_data_offset == player_car_idx * F1_LAP_INFO_SIZE IN
    IF ~(lap_data_offset + 23 <= Len(payload)) THEN st
    ELSE LET st1 == [st EXCEPT
                 !.latest_data.current_lap_time_sec =
                     ms_to_sec(U32(payload, lap_data_offset)),
                 !.latest_data.current_sector = U8(payload, lap_data_offset + 10) + 1,
                 !.latest_data.current_sector1_time_ms = U16(payload, lap_data_offset + 12),
                 !.latest_data.current_sector2_time_ms = U16(payload, lap_data_offset + 14),
                 !.latest_data.current_lap_num = U8(payload, lap_data_offset + 18),
                 !.last_known_player_lap_num_from_lap_data =
                     U8(payload, lap_data_offset + 18)]
         IN IF ~HasBytes(payload, lap_data_offset + 23, 1)
            THEN [st1 EXCEPT !.raised = TRUE]
            ELSE [st1 EXCEPT !.latest_data.current_lap_invalid =
                                 (U8(payload, lap_data_offset + 23) = 1)]

\* _process_packet, packet id 6
f1_car_telemetry(st, payload, player_car_idx) ==
    LET telemetry_offset == player_car_idx * F1_CAR_TELEMETRY_DATA_SIZE IN
    IF ~(telemetry_offset + 17 <= Len(payload)) THEN st
    ELSE [st EXCEPT
            !.latest_data.speed = U16(payload, telemetry_offset),
            !.latest_data.throttle = F32(payload, telemetry_offset + 2),
            !.latest_data.steering = F32(payload, telemetry_offset + 6),
            !.latest_data.brake = F32(payload, telemetry_offset + 10),
            !.latest_data.gear = S8(payload, telemetry_offset + 14),
            !.latest_data.engine_rpm = U16(payload, telemetry_offset + 15)]

\* mutant: sector 3 of an event lap is the plain remainder
event_s3_ms_PlainRemainder(lap_time_ms, s1_ms, s2_ms) ==
    lap_time_ms - s1_ms - s2_ms

\* s3_ms = lap_time_ms - s1_ms - s2_ms if (s1_ms > 0 and s2_ms > 0 and
\* lap_time_ms > (s1_ms+s2_ms)) else 0
event_s3_ms(lap_time_ms, s1_ms, s2_ms) ==
    IF s1_ms > 0 /\ s2_ms > 0 /\ lap_time_ms > s1_ms + s2_ms
    THEN lap_time_ms - s1_ms - s2_ms
    ELSE 0

\* _process_packet, packet id 3
f1_event(st, payload) ==
    IF ~(HasBytes(payload, 0, 4) /\ SubSeq(payload, 1, 4) = CodeLAFN) THEN st
    ELSE IF ~HasBytes(payload, 4, 1) THEN [st EXCEPT !.raised = TRUE]
    ELSE IF U8(payload, 4) # st.latest_data.player_car_index THEN st
    ELSE IF ~HasBytes(payload, 5, 8) THEN [st EXCEPT !.raised = TRUE]
    ELSE LET lap_time_ms == U32(payload, 5)
             s1_ms == U16(payload, 9)
             s2_ms == U16(payload, 11)
             s3_ms == event_s3_ms(lap_time_ms, s1_ms, s2_ms)
             completed_lap_number == st.latest_data.current_lap_num
             history == st.latest_data.completed_laps_history
             already_in_history ==
                 \E k \in 1..Len(history) : history[k].lap_number = completed_lap_number
         IN IF ~already_in_history /\ lap_time_ms > 0
            THEN [st EXCEPT !.latest_data.newly_completed_lap_event =
                     CompletedLap(completed_lap_number, lap_time_ms, s1_ms, s2_ms, s3_ms,
                                  ~st.latest_data.current_lap_invalid, TRUE)]
            ELSE st

\* the loop over range(num_laps_in_history) from index i on
RECURSIVE new_laps_from_history(_, _, _, _)
new_laps_from_history(payload, i, num_laps_in_history, history) ==
    LET entry_offset == SESSION_HISTORY_LEAD_DATA_SIZE + i * F1_LAP_HISTORY_ENTRY_SIZE
        rest == new_laps_from_history(payload, i + 1, num_laps_in_history, history)
    IN IF i >= num_laps_in_history THEN <<>>
       ELSE IF entry_offset + F1_LAP_HISTORY_ENTRY_SIZE > Len(payload) THEN <<>>
       ELSE IF U32(payload, entry_offset) = 0 THEN rest
       ELSE IF \E k \in 1..Len(history) : history[k].lap_number = i + 1 THEN rest
       ELSE <<CompletedLap(i + 1, U32(payload, entry_offset),
                           U16(payload, entry_offset + 4), U16(payload, entry_offset + 6),
                           U16(payload, entry_offset + 8),
                           U8(payload, entry_offset + 10) % 2 = 1, FALSE)>> \o rest

\* list.sort(key=lambda x: x.lap_number) after an append to a sorted list:
\* the new lap goes behind the laps whose number is not greater
RECURSIVE append_and_sort(_, _)
append_and_sort(history, lap) ==
    IF history = <<>> THEN <<lap>>
    ELSE IF history[Len(history)].lap_number <= lap.lap_number
         THEN Append(history, lap)
         ELSE Append(append_and_sort(SubSeq(history, 1, Len(history) - 1), lap),
                     history[Len(history)])

\* the loop `for lap in new_laps_from_history`
RECURSIVE add_laps_from_history(_, _, _)
add_laps_from_history(history, event, laps) ==
    IF laps = <<>> THEN history
    ELSE LET lap == Head(laps)
             event_lap_match ==
                 event # NoLap /\ event.lap_number = lap.lap_number /\ event.is_event_lap
             kept == IF event_lap_match
                     THEN SelectSeq(history, LAMBDA l : l.lap_number # lap.lap_number)
                     ELSE history
         IN add_laps_from_history(append_and_sort(kept, lap), event, Tail(laps))

\* _process_packet, packet id 11
f1_session_history(st, payload) ==
    IF ~HasBytes(payload, 0, 1) THEN [st EXCEPT !.raised = TRUE]
    ELSE IF U8(payload, 0) # st.latest_data.player_car_index THEN st
    ELSE IF ~HasBytes(payload, 1, 1) THEN [st EXCEPT !.raised = TRUE]
    ELSE [st EXCEPT !.latest_data.completed_laps_history =
             add_laps_from_history(
                 st.latest_data.completed_laps_history,
                 st.latest_data.newly_completed_lap_event,
                 new_laps_from_history(payload, 0, U8(payload, 1),
                                       st.latest_data.completed_laps_history))]

_process_packet(st, payload, packet_id, player_car_idx) ==
    CASE packet_id = 1  -> f1_session(st, payload)
      [] packet_id = 4  -> f1_participants(st, payload, player_car_idx)
      [] packet_id = 2  -> f1_lap_data(st, payload, player_car_idx)
      [] packet_id = 6  -> f1_car_telemetry(st, payload, player_car_idx)
      [] packet_id = 3  -> f1_event(st, payload)
      [] packet_id = 11 -> f1_session_history(st, payload)
      [] OTHER          -> st

\* _listen, first lock section: the header fields are stored
_listen_header(st, d) ==
    [st EXCEPT !.latest_data.player_car_index = d.pci,
               !.latest_data.session_time_elapsed = d.time,
               !.latest_data.newly_completed_lap_event = NoLap]

\* _listen, last lock section: no session packet for more than 10 seconds
_listen_timeout(st, timed_out) ==
    IF st.latest_data.session_active /\ timed_out
    THEN [st EXCEPT !.latest_data.session_active = FALSE]
    ELSE st

-----------------------------------------------------------------------------
(* src/telemetry_listener.py: TelemetryListener (ctypes) *)

\* the packet ids with an entry in PACKET_STRUCTURES
PACKET_STRUCTURES == {6, 2, 1}

\* the packet ids of PACKET_IDS
PACKET_IDS == 0..11

\* self.callbacks.get(packet_id) of an id without a callback
NoCallback == "none"

\* self.callbacks: Dict[int, Callable] = {}
NoCallbacks == [k \in PACKET_IDS |-> NoCallback]

\* mutant: a callback already registered for the id is kept
register_callback_KeepFirst(cbs, packet_id, callback) ==
    IF cbs[packet_id] = NoCallback THEN [cbs EXCEPT ![packet_id] = callback] ELSE cbs

\* self.callbacks[packet_id] = callback
register_callback(cbs, packet_id, callback) == [cbs EXCEPT ![packet_id] = callback]

\* the dictionary a sequence of register_callback calls leaves
RECURSIVE RegisterAll(_, _)
RegisterAll(cbs, calls) ==
    IF calls = <<>> THEN cbs
    ELSE RegisterAll(register_callback(cbs, Head(calls).packet_id, Head(calls).callback),
                     Tail(calls))

\* header.m_packetId after the 24-byte memmove: the datagram's byte 5 when it
\* has one, whatever lies behind the buffer when it has not
HeaderPacketIds(d) == IF d.len >= 6 THEN {d.pid} ELSE 0..11
HeaderFormats(d) == IF d.len >= 2 THEN {d.fmt} ELSE {0, SUPPORTED_FORMAT}

\* sizeof(packet_structure) of the structures in PACKET_STRUCTURES: the
\* header, 22 cars and the fields after the array (PacketCarTelemetryData
\* 1347, PacketLapData 972); PacketSessionData is 212 bytes
sizeof(packet_id) ==
    CASE packet_id = 6 -> PACKET_HEADER_SIZE + MAX_CARS * WIRE_CAR_TELEMETRY_SIZE + 3
      [] packet_id = 2 -> PACKET_HEADER_SIZE + MAX_CARS * WIRE_LAP_DATA_SIZE + 2
      [] packet_id = 1 -> 212

\* min(len(data), sizeof(packet_structure)): the bytes memmove copies into
\* the zeroed packet_buffer
copied_bytes(d, packet_id) ==
    IF d.len < sizeof(packet_id) THEN d.len ELSE sizeof(packet_id)

\* one pass of the loop in _listen_loop: the callback invocations it makes,
\* the header seen being (packet_id, packet_format); an invocation passes a
\* structure of `size` bytes of which the first `copied` come from the
\* datagram and the rest are zero
_listen_loop(registered, d, packet_id, packet_format) ==
    IF d.len = 0 THEN <<>>
    ELSE IF packet_id \notin PACKET_STRUCTURES THEN <<>>
    ELSE IF registered[packet_id] = NoCallback THEN <<>>
    ELSE <<[packet_id |-> packet_id, packet_format |-> packet_format,
            callback |-> registered[packet_id],
            copied |-> copied_bytes(d, packet_id), size |-> sizeof(packet_id)]>>

-----------------------------------------------------------------------------
(* What the game and other senders put on the listeners' port *)

Time0 == F32Zero
\* 1.0f
Time1 == <<0, 0, 128, 63>>

LapBytesA == LapEntryBytes(LapEntry(85000, 1, 2), 40, 1, 0)
LapBytesB == LapEntryBytes(LapEntry(84000, 2, 3), 50, 2, 1)

TelemetryCars ==
    <<[speed |-> 300, throttle |-> 63, gear |-> 7, rpm |-> 11000],
      [speed |-> 120, throttle |-> 0, gear |-> 3, rpm |-> 9000]>>

ParticipantCars == <<[network_id |-> 0, team_id |-> 1], [network_id |-> 1, team_id |-> 2]>>

ListenerHistory == <<EntryGood, EntryS3Dir, EntryGood, EntryGood, EntryGood>>

ListenerDatagrams ==
    { Wire(SUPPORTED_FORMAT, 1, 0, Time1, SessionPayload(n, 1, 7, 10, 0, 13)) :
        n \in {12, 11, 2, 0} }
    \cup { Wire(SUPPORTED_FORMAT, 2, p, Time1,
                LapPayload(2 * WIRE_LAP_DATA_SIZE, <<LapBytesA, LapBytesB>>)) :
             p \in {0, 1} }
    \cup { Wire(SUPPORTED_FORMAT, 2, 0, Time1, LapPayload(23, <<LapBytesB>>)) }
    \cup { Wire(SUPPORTED_FORMAT, 6, p, Time1,
                TelemetryPayload(2 * WIRE_CAR_TELEMETRY_SIZE, TelemetryCars)) :
             p \in {0, 1} }
    \cup { Wire(SUPPORTED_FORMAT, 4, 1, Time1,
                ParticipantsPayload(1 + 2 * PARTICIPANT_DATA_ENTRY_SIZE, 2,
                                    ParticipantCars)) }
    \cup { Wire(SUPPORTED_FORMAT, 3, 0, Time1,
                EventPayload(n, CodeLAFN, 0, 85000, 28000, 29000)) : n \in {13, 4} }
    \cup { Wire(SUPPORTED_FORMAT, 3, 0, Time1, EventPayload(4, CodeSSTA, 0, 0, 0, 0)) }
    \cup { Wire(SUPPORTED_FORMAT, 11, 0, Time1,
                HistoryPayload(SESSION_HISTORY_LEAD_DATA_SIZE + 5 * LAP_HISTORY_ENTRY_SIZE,
                               c, 2, ListenerHistory)) : c \in {0, 1} }
    \* a packet type neither listener decodes, a runt, an empty datagram
    \cup { Wire(SUPPORTED_FORMAT, 0, 0, Time1, <<>>),
           LDgram(10, SUPPORTED_FORMAT, 2, 0, Time0, <<>>),
           LDgram(3, SUPPORTED_FORMAT, 0, 0, Time0, <<>>),
           NoLData }
    \* packets of another season's game
    \cup { Wire(2021, 1, 1, Time0, SessionPayload(12, 3, 9, 5, 2, 6)),
           Wire(2021, 2, 1, Time0,
                LapPayload(2 * WIRE_LAP_DATA_SIZE, <<LapBytesB, LapBytesA>>)),
           Wire(2023, 6, 0, Time0,
                TelemetryPayload(2 * WIRE_CAR_TELEMETRY_SIZE, TelemetryCars)) }

\* 2.015625f and 2.03125f: the third byte is 1 and 2
Distance1 == <<0, 0, 1, 64>>
Distance2 == <<0, 0, 2, 64>>

LapBytesC == LapEntryBytesAt(LapEntry(85000, 1, 2), 40, 1, 0, Distance1)
LapBytesD == LapEntryBytesAt(LapEntry(84000, 1, 3), 50, 2, 1, Distance2)

\* (lap time, sector 1, sector 2) of a lap-finished event
EventTimes == { <<85000, 28000, 29000>>, <<85000, 0, 29000>>, <<1000, 600, 600>>,
                <<0, 0, 0>> }

\* one session: lap-data packets, lap-finished events for the player and
\* for another car, and history packets
LapsDatagrams ==
    { Wire(SUPPORTED_FORMAT, 1, 0, Time1, SessionPayload(12, 1, 7, 10, 0, 13)) }
    \cup { Wire(SUPPORTED_FORMAT, 2, 0, Time1,
                LapPayload(2 * WIRE_LAP_DATA_SIZE, <<b, LapBytesA>>)) :
             b \in {LapBytesC, LapBytesD} }
    \cup { Wire(SUPPORTED_FORMAT, 3, 0, Time1,
                EventPayload(13, CodeLAFN, v, t[1], t[2], t[3])) :
             v \in {0, 1}, t \in EventTimes }
    \cup { Wire(SUPPORTED_FORMAT, 3, 0, Time1,
                EventPayload(9, CodeLAFN, 0, 85000, 28000, 29000)) }
    \cup { Wire(SUPPORTED_FORMAT, 11, 0, Time1,
                HistoryPayload(SESSION_HISTORY_LEAD_DATA_SIZE + 5 * LAP_HISTORY_ENTRY_SIZE,
                               c, n, h)) :
             c \in {0, 1}, n \in 1..2, h \in {ListenerHistory, <<EntryGood, EntryGood>>} }

\* a short run of a session and lap-data packets for either player index,
\* received while the GUI thread polls the listener
PollingDatagrams ==
    { Wire(SUPPORTED_FORMAT, 1, 0, Time1, SessionPayload(12, 1, 7, 10, 0, 13)),
      LDgram(10, SUPPORTED_FORMAT, 2, 0, Time0, <<>>) }
    \cup { Wire(SUPPORTED_FORMAT, 2, p, Time1,
                LapPayload(2 * WIRE_LAP_DATA_SIZE, <<LapBytesA, LapBytesB>>)) :
             p \in {0, 1} }

\* one call register_callback(packet_id, callback)
Registration(packet_id, callback) == [packet_id |-> packet_id, callback |-> callback]

\* the callback registrations made before start()
CallbackSets ==
    { <<Registration(6, "on_telemetry")>>,
      <<Registration(2, "on_lap"), Registration(6, "on_telemetry")>>,
      <<Registration(1, "on_session"), Registration(2, "on_lap"),
        Registration(3, "on_event")>> }

\* the calls of register_callback made while the listener runs
LateRegistrations ==
    { Registration(2, "on_lap"), Registration(2, "on_lap_again"),
      Registration(3, "on_event"), Registration(6, "on_telemetry") }

\* lap-data (two cars only, and all 22 cars with the two trailing bytes),
\* event, car-telemetry and session-history packets and a runt, received
\* while callbacks are being registered
CallbackDatagrams ==
    { Wire(SUPPORTED_FORMAT, 2, 0, Time1,
           LapPayload(2 * WIRE_LAP_DATA_SIZE, <<LapBytesA, LapBytesB>>)),
      Wire(SUPPORTED_FORMAT, 2, 0, Time1,
           LapPayload(MAX_CARS * WIRE_LAP_DATA_SIZE + 2, <<LapBytesA, LapBytesB>>)),
      Wire(SUPPORTED_FORMAT, 3, 0, Time1, EventPayload(4, CodeSSTA, 0, 0, 0, 0)),
      Wire(SUPPORTED_FORMAT, 6, 0, Time1,
           TelemetryPayload(2 * WIRE_CAR_TELEMETRY_SIZE, TelemetryCars)),
      Wire(SUPPORTED_FORMAT, 11, 0, Time1,
           HistoryPayload(SESSION_HISTORY_LEAD_DATA_SIZE + 5 * LAP_HISTORY_ENTRY_SIZE,
                          0, 2, ListenerHistory)),
      LDgram(10, SUPPORTED_FORMAT, 2, 0, Time0, <<>>) }

\* two sessions that differ in session type (payload offset 6) and in the
\* byte the listener stores as session type (offset 11), with the history
\* packets of the player's car
SessionsDatagrams ==
    { Wire(SUPPORTED_FORMAT, 1, 0, Time1, SessionPayload(12, 1, 7, s[1], 0, s[2])) :
        s \in { <<10, 13>>, <<12, 14>> } }
    \cup { Wire(SUPPORTED_FORMAT, 11, 0, Time1,
                HistoryPayload(SESSION_HISTORY_LEAD_DATA_SIZE + 5 * LAP_HISTORY_ENTRY_SIZE,
                               0, n, ListenerHistory)) :
             n \in 1..2 }

ListenerTraffics == {"listeners", "polling", "laps", "sessions"}

CallbackTraffics == {"listeners", "callbacks"}

ListenerTraffic(t) ==
    CASE t = "listeners" -> ListenerDatagrams
      [] t = "polling"   -> PollingDatagrams
      [] t = "laps"      -> LapsDatagrams
      [] t = "callbacks" -> CallbackDatagrams
      [] t = "sessions"  -> SessionsDatagrams
      [] t = "f1_lifecycle" -> PollingDatagrams
      [] t = "tl_lifecycle" -> CallbackDatagrams

\* the object get_current_telemetry returns, with the state the last whole
\* datagram left
get_current_telemetry(ld, whole) == [valid |-> TRUE, seen |-> ld, whole |-> whole]

\* nothing has been returned yet
NoView == [valid |-> FALSE, seen |-> TelemetryData, whole |-> TelemetryData]

-----------------------------------------------------------------------------
(* src/data_logger.py: DataLogger *)

\* DataLogger.__init__: current_session is the session directory (None or
\* the number of the session started), files the lap_NN.csv files of that
\* directory, each with the records written to it; of session_info the
\* lap count is kept, the best-lap statistics are not tracked
DataLogger ==
    [current_session |-> None,
     is_recording |-> FALSE,
     current_lap_data |-> <<>>,
     completed_laps |-> <<>>,
     total_laps |-> 0,
     files |-> <<>>,
     sessions |-> 0,
     calls |-> 0]

\* the record built by record_telemetry, with the fields taken from lap_data
TelemetryRecord(lap_data) ==
    [lap_number |-> lap_data.lap_number,
     sector |-> lap_data.sector,
     current_lap_invalid |-> lap_data.current_lap_invalid]

\* open(csv_path, 'w') and writer.writerows: the file lap_{lap_number:02d}.csv
\* is created or replaced
write_csv(files, lap_number, rows) ==
    IF \E i \in 1..Len(files) : files[i].lap_number = lap_number
    THEN [i \in 1..Len(files) |->
            IF files[i].lap_number = lap_number
            THEN [lap_number |-> lap_number, rows |-> rows] ELSE files[i]]
    ELSE Append(files, [lap_number |-> lap_number, rows |-> rows])

\* DataLogger.start_session: a new directory, named by the time of day
start_session(dl) ==
    IF dl.is_recording THEN dl
    ELSE [dl EXCEPT !.current_session = dl.sessions + 1,
                    !.sessions = dl.sessions + 1,
                    !.is_recording = TRUE,
                    !.current_lap_data = <<>>,
                    !.completed_laps = <<>>,
                    !.total_laps = 0,
                    !.files = <<>>]

\* DataLogger._save_lap_data
_save_lap_data(dl, lap_number) ==
    IF dl.current_session = None \/ dl.current_lap_data = <<>> THEN dl
    ELSE [dl EXCEPT !.files = write_csv(dl.files, lap_number, dl.current_lap_data),
                    !.completed_laps =
                        IF Len(dl.completed_laps) < lap_number
                        THEN Append(dl.completed_laps, dl.current_lap_data)
                        ELSE dl.completed_laps]

\* DataLogger.stop_session
stop_session(dl) ==
    IF ~dl.is_recording THEN dl
    ELSE LET dl1 == IF dl.current_lap_data # <<>>
                    THEN _save_lap_data(dl, Len(dl.completed_laps) + 1)
                    ELSE dl
         IN [dl1 EXCEPT !.is_recording = FALSE,
                        !.current_session = None,
                        !.current_lap_data = <<>>,
                        !.completed_laps = <<>>]

\* DataLogger._is_lap_completed: lap_data.get("last_lap_time_ms", 0) > 0
_is_lap_completed(lap_data) == lap_data.last_lap_time_ms > 0

\* DataLogger.record_telemetry; lap_data has lap_number, sector,
\* current_lap_invalid and last_lap_time_ms (0 when the caller gives none)
record_telemetry(dl, lap_data) ==
    IF ~dl.is_recording THEN dl
    ELSE
      LET current_lap_number == lap_data.lap_number
          record == TelemetryRecord(lap_data)
          last_record_lap == dl.current_lap_data[Len(dl.current_lap_data)].lap_number
          dl1 == IF Len(dl.current_lap_data) > 0 /\ current_lap_number # last_record_lap
                 THEN [_save_lap_data(dl, last_record_lap) EXCEPT !.current_lap_data = <<>>]
                 ELSE dl
          dl2 == [dl1 EXCEPT !.current_lap_data = Append(@, record),
                             !.calls = @ + 1]
          last_lap_number == IF current_lap_number > 0
                             THEN current_lap_number - 1 ELSE current_lap_number
      IN IF _is_lap_completed(lap_data) /\ last_lap_number > 0
         THEN [_save_lap_data(dl2, last_lap_number) EXCEPT
                  !.total_laps = last_lap_number,
                  !.current_lap_data = <<record>>]
         ELSE dl2

\* DataLogger.update_session_info({..., "total_laps": n})
update_session_info(dl, total_laps) ==
    IF ~dl.is_recording THEN dl ELSE [dl EXCEPT !.total_laps = total_laps]

-----------------------------------------------------------------------------
(* src/main.py: the lap tracking of F1TelemetryApp *)

\* F1TelemetryApp.__init__ and the TelemetryData it creates; lap_times
\* holds the calls of gui.add_lap_time made
F1TelemetryApp ==
    [player_car_index |-> None,
     current_lap_number |-> 0,
     last_lap_time |-> 0,
     current_lap_invalid |-> FALSE,
     last_sector_time |-> 0,
     current_sector_start_time |-> 0,
     current_sector |-> 0,
     lap_distance |-> F32Zero,
     sector1_time |-> 0,
     sector2_time |-> 0,
     sector3_time |-> 0,
     lap_times |-> <<>>]

\* one entry of PacketLapData.m_lapData, with the fields the handler reads
LapData(last_lap_time, current_lap_time, lap_distance, current_lap_num, sector, invalid) ==
    [m_lastLapTimeInMS |-> last_lap_time,
     m_currentLapTimeInMS |-> current_lap_time,
     m_lapDistance |-> lap_distance,
     m_currentLapNum |-> current_lap_num,
     m_sector |-> sector,
     m_currentLapInvalid |-> invalid]

\* a PacketLapData whose entry of the player's car is lap_data
PacketLapData(lap_data) == [m_lapData |-> <<lap_data>>]

NoLapPacket == PacketLapData(LapData(0, 0, F32Zero, 0, 0, 0))

\* _handle_lap_data: the validity of the current lap follows one way only
current_lap_invalid_LatestFlag(invalid, lap_data) == lap_data.m_currentLapInvalid # 0

\* _handle_lap_data: `if lap_data.m_currentLapInvalid:
\* self.current_lap_invalid = True`
current_lap_invalid_update(invalid, lap_data) ==
    IF lap_data.m_currentLapInvalid # 0 THEN TRUE ELSE invalid

\* _handle_lap_data: the sector tracking
track_sector_changes(a, lap_data) ==
    LET current_sector == lap_data.m_sector
        current_lap_time == lap_data.m_currentLapTimeInMS
        a1 == [a EXCEPT !.current_sector = current_sector,
                        !.lap_distance = lap_data.m_lapDistance]
        total_lap_time == IF lap_data.m_lastLapTimeInMS > 0
                          THEN lap_data.m_lastLapTimeInMS ELSE current_lap_time
        sector3_time == total_lap_time - (a1.sector1_time + a1.sector2_time)
    IN IF current_sector > 0 /\ a1.last_sector_time = 0
       THEN [a1 EXCEPT !.last_sector_time = current_lap_time,
                       !.current_sector_start_time = current_lap_time,
                       !.sector1_time = current_lap_time]
       ELSE IF current_sector > 1 /\ a1.sector2_time = 0
       THEN [a1 EXCEPT !.sector2_time = current_lap_time - a1.last_sector_time,
                       !.last_sector_time = current_lap_time]
       ELSE IF current_sector = 0 /\ total_lap_time > 0
               /\ a1.sector1_time > 0 /\ a1.sector2_time > 0 /\ sector3_time > 0
       THEN [a1 EXCEPT !.sector3_time = sector3_time]
       ELSE a1

\* _handle_lap_data: a lap number that differs from the tracked one
\* completes the tracked lap, which is handed to gui.add_lap_time when its
\* number is positive, and starts a valid new lap
update_lap_information(a, lap_data) ==
    LET new_lap_number == lap_data.m_currentLapNum
        completed == [a EXCEPT !.last_lap_time = lap_data.m_lastLapTimeInMS,
                               !.lap_times = Append(a.lap_times,
                                    [lap_number |-> a.current_lap_number,
                                     lap_time |-> lap_data.m_lastLapTimeInMS,
                                     valid |-> ~a.current_lap_invalid]),
                               !.last_sector_time = 0,
                               !.current_sector_start_time = 0,
                               !.sector1_time = 0,
                               !.sector2_time = 0,
                               !.sector3_time = 0]
        a1 == IF a.current_lap_number > 0 THEN completed ELSE a
    IN IF new_lap_number # a.current_lap_number
       THEN [a1 EXCEPT !.current_lap_number = new_lap_number,
                       !.current_lap_invalid = FALSE]
       ELSE a

\* F1TelemetryApp._handle_lap_data
_handle_lap_data(a, packet) ==
    LET a1 == IF a.player_car_index = None THEN [a EXCEPT !.player_car_index = 0] ELSE a
        lap_data == packet.m_lapData[a1.player_car_index + 1]
        a2 == [a1 EXCEPT !.current_lap_invalid =
                             current_lap_invalid_update(a1.current_lap_invalid, lap_data)]
    IN update_lap_information(track_sector_changes(a2, lap_data), lap_data)

\* the lap-data packets of a run in which validity changes: laps 1 to 3,
\* valid or invalid, while the car is in the first sector
ValidityPackets ==
    { PacketLapData(LapData(last, 5000, Distance1, n, 0, invalid)) :
        last \in {0, 85000}, n \in {0, 1, 2, 3}, invalid \in {0, 1} }

\* the lap-data packets of a run through the sectors, with current lap
\* times that need not grow from one packet to the next
SectorPackets ==
    { PacketLapData(LapData(last, t, Distance1, n, sector, 0)) :
        last \in {0, 85000}, t \in {0, 28000, 57000}, n \in {1, 2},
        sector \in {0, 1, 2} }

\* the lap-data packets of a recorded run: laps 1 to 3, the last lap time
\* being 0 during the first lap and positive from then on
RecordingPackets ==
    { PacketLapData(LapData(last, 5000, Distance1, n, 0, 0)) :
        last \in {0, 85000}, n \in {1, 2, 3} }

AppTraffics == {"validity", "sectors", "recording"}

AppTraffic(t) ==
    CASE t = "validity"  -> ValidityPackets
      [] t = "sectors"   -> SectorPackets
      [] t = "recording" -> RecordingPackets

\* F1TelemetryApp._handle_lap_data, the calls of self.data_logger: `a` is
\* the application before the packet and a_new after it. A completed lap
\* is reported with update_session_info; the packet is recorded under the
\* lap number tracked after the update.
_handle_lap_data_recording(dl, a, a_new, lap_data) ==
    LET dl1 == IF lap_data.m_currentLapNum # a.current_lap_number
                  /\ a.current_lap_number > 0
               THEN update_session_info(dl, a.current_lap_number)
               ELSE dl
        lap_info == [lap_number |-> a_new.current_lap_number,
                     sector |-> lap_data.m_sector,
                     current_lap_invalid |-> a_new.current_lap_invalid,
                     last_lap_time_ms |-> lap_data.m_lastLapTimeInMS]
    IN record_telemetry(dl1, lap_info)

\* F1TelemetryApp._handle_car_telemetry, the call of self.data_logger:
\* nothing before the player's car is known; the record carries the
\* tracked lap number, no sector and no last lap time
_handle_car_telemetry(dl, a) ==
    IF a.player_car_index = None THEN dl
    ELSE record_telemetry(dl, [lap_number |-> a.current_lap_number,
                               sector |-> 0,
                               current_lap_invalid |-> FALSE,
                               last_lap_time_ms |-> 0])

\* F1TelemetryApp has been constructed and no packet handled
AppInit ==
    /\ app = F1TelemetryApp
    /\ lap_packet = NoLapPacket
    /\ data_logger = DataLogger

-----------------------------------------------------------------------------

(* The CSV lap logger: main() of src/f1_telemetry_logger.py *)

\* the module globals as first assigned
LoggerGlobalsInit ==
    /\ current_session_id = None
    /\ last_processed_session_uid = None
    /\ last_processed_session_type = -1
    /\ last_session_id_for_lap_reset_cache = None
    /\ player_car_index = None
    /\ current_track_name = "Unknown"
    /\ current_race_car = "Unknown"
    /\ current_session_type_str = "Unknown"
    /\ current_weather_str = "Unknown"
    /\ pending_lap_details = <<>>
    /\ logged_laps_in_session = {}
    /\ csv_rows = <<>>
    /\ data = NoData
    /\ exit_cause = "none"
    /\ sock = "none"

\* no listener object has been started
ListenersOff ==
    /\ latest_data = TelemetryData
    /\ last_known_player_lap_num_from_lap_data = 0
    /\ f1_running = FALSE
    /\ f1_pc = "off"
    /\ f1_data = NoLData
    /\ f1_whole = TelemetryData
    /\ consumer_view = NoView
    /\ tl_running = FALSE
    /\ callbacks = NoCallbacks
    /\ registrations = <<>>
    /\ tl_pc = "off"
    /\ tl_data = NoLData
    /\ invoked = <<>>

\* the sockets and threads F1TelemetryListener.start can create
F1Threads == 1..MaxStarts

\* a thread start() has not created yet; a created thread is at the loop
\* test ("test"), inside recvfrom ("recv"), handling a datagram ("handle")
\* or has left _listen ("done")
NoThread == [pc |-> "unborn", socket |-> 0, data |-> NoLData]

\* no listener has created a socket or a thread
LifecycleOff ==
    /\ f1_socket = 0
    /\ f1_sockets = [n \in F1Threads |-> "none"]
    /\ f1_threads = [n \in F1Threads |-> NoThread]
    /\ tl_socket = "none"
    /\ tl_stop = "idle"
    /\ app_running = FALSE
    /\ app_socket = "none"
    /\ app_sock = "none"
    /\ app_thread = "unborn"
    /\ app_stop = "idle"
    /\ packet_count = 0
    /\ app_callbacks = 0

Init ==
    /\ LoggerGlobalsInit
    /\ pc = "start"
    /\ traffic \in Traffics
    /\ ListenersOff
    /\ LifecycleOff
    /\ AppInit

\* main(): the socket is created and bound before the `try` whose
\* `finally` closes it; when bind raises OSError main() prints and
\* returns. The CSV header written next is not part of csv_rows.
Main_Bind ==
    /\ pc = "start"
    /\ \E bound \in BOOLEAN :
         /\ sock' = "open"
         /\ pc' = IF bound THEN "recv" ELSE "exited"
         /\ exit_cause' = IF bound THEN exit_cause ELSE "bind"
    /\ UNCHANGED <<current_session_id, last_processed_session_uid,
                   last_processed_session_type, last_session_id_for_lap_reset_cache,
                   player_car_index, current_track_name, current_race_car,
                   current_session_type_str, current_weather_str,
                   pending_lap_details, logged_laps_in_session, csv_rows,
                   data, traffic>>
    /\ UNCHANGED <<listener_vars, lifecycle_vars, app_vars>>

\* data, addr = sock.recvfrom(2048)
Receive ==
    /\ pc = "recv"
    /\ Len(csv_rows) < MaxRows
    /\ \E d \in TrafficDatagrams(traffic) :
         /\ d.pid = 1 => current_session_id < MaxSessions
         /\ data' = d
    /\ pc' = "process"
    /\ UNCHANGED <<current_session_id, last_processed_session_uid,
                   last_processed_session_type, last_session_id_for_lap_reset_cache,
                   player_car_index, current_track_name, current_race_car,
                   current_session_type_str, current_weather_str,
                   pending_lap_details, logged_laps_in_session, csv_rows,
                   exit_cause, traffic, sock>>
    /\ UNCHANGED <<listener_vars, lifecycle_vars, app_vars>>

\* the loop body; an exception leaving it ends the loop in main()'s
\* `except Exception`, and `finally` closes the socket
Process ==
    /\ pc = "process"
    /\ LET st == main_iteration(LoggerState, data) IN
         /\ current_session_id' = st.current_session_id
         /\ last_processed_session_uid' = st.last_processed_session_uid
         /\ last_processed_session_type' = st.last_processed_session_type
         /\ last_session_id_for_lap_reset_cache' = st.last_session_id_for_lap_reset_cache
         /\ player_car_index' = st.player_car_index
         /\ current_track_name' = st.current_track_name
         /\ current_race_car' = st.current_race_car
         /\ current_session_type_str' = st.current_session_type_str
         /\ current_weather_str' = st.current_weather_str
         /\ pending_lap_details' = st.pending_lap_details
         /\ logged_laps_in_session' = st.logged_laps_in_session
         /\ csv_rows' = st.csv_rows
         /\ pc' = IF st.raised THEN "exited" ELSE "recv"
         /\ exit_cause' = IF st.raised THEN "error" ELSE exit_cause
         /\ sock' = IF st.raised THEN "closed" ELSE sock
    /\ data' = NoData
    /\ UNCHANGED traffic
    /\ UNCHANGED <<listener_vars, lifecycle_vars, app_vars>>

\* Ctrl-C while blocked in recvfrom: `except KeyboardInterrupt`
Interrupt ==
    /\ pc = "recv"
    /\ pc' = "exited"
    /\ exit_cause' = "interrupt"
    /\ sock' = "closed"
    /\ UNCHANGED <<current_session_id, last_processed_session_uid,
                   last_processed_session_type, last_session_id_for_lap_reset_cache,
                   player_car_index, current_track_name, current_race_car,
                   current_session_type_str, current_weather_str,
                   pending_lap_details, logged_laps_in_session, csv_rows,
                   data, traffic>>
    /\ UNCHANGED <<listener_vars, lifecycle_vars, app_vars>>

Next == Main_Bind \/ Receive \/ Process \/ Interrupt

Spec == Init /\ [][Next]_vars

-----------------------------------------------------------------------------
(* The threaded listeners: F1TelemetryListener and TelemetryListener *)

\* one of the two listeners has been constructed and started; the logger
\* is not running. The thread of this one start() is followed in f1_pc
\* or tl_pc.
InitListeners ==
    /\ LoggerGlobalsInit
    /\ AppInit
    /\ pc = "off"
    /\ latest_data = TelemetryData
    /\ last_known_player_lap_num_from_lap_data = 0
    /\ f1_data = NoLData
    /\ f1_whole = TelemetryData
    /\ consumer_view = NoView
    /\ tl_data = NoLData
    /\ invoked = <<>>
    /\ f1_threads = [n \in F1Threads |-> NoThread]
    /\ tl_stop = "idle"
    /\ app_running = FALSE /\ app_socket = "none" /\ app_sock = "none"
    /\ app_thread = "unborn" /\ app_stop = "idle" /\ packet_count = 0
    /\ app_callbacks = 0
    /\ \/ /\ traffic \in ListenerTraffics
          /\ f1_running = TRUE /\ f1_pc = "recv"
          /\ f1_socket = 1
          /\ f1_sockets = [n \in F1Threads |-> IF n = 1 THEN "open" ELSE "none"]
          /\ tl_running = FALSE /\ tl_pc = "off" /\ tl_socket = "none"
          /\ registrations = <<>> /\ callbacks = NoCallbacks
       \/ /\ traffic \in CallbackTraffics
          /\ f1_running = FALSE /\ f1_pc = "off"
          /\ f1_socket = 0 /\ f1_sockets = [n \in F1Threads |-> "none"]
          /\ tl_running = TRUE /\ tl_pc = "recv" /\ tl_socket = "open"
          /\ registrations \in (IF traffic = "listeners" THEN CallbackSets ELSE {<<>>})
          /\ callbacks = RegisterAll(NoCallbacks, registrations)

\* F1TelemetryListener._listen: data, addr = self.socket.recvfrom(2048)
F1_Receive ==
    /\ f1_pc = "recv" /\ f1_running
    /\ \E d \in ListenerTraffic(traffic) : f1_data' = d
    /\ f1_pc' = "process"
    /\ UNCHANGED <<latest_data, last_known_player_lap_num_from_lap_data, f1_running,
                   f1_whole, consumer_view,
                   tl_running, callbacks, registrations, tl_pc, tl_data, invoked>>
    /\ UNCHANGED <<logger_vars, lifecycle_vars, app_vars>>

\* F1TelemetryListener._listen: the length check and the first lock
\* section, which stores the header fields
F1_Header ==
    /\ f1_pc = "process"
    /\ IF f1_data.len = 0 \/ f1_data.len < PACKET_HEADER_SIZE
       THEN /\ f1_pc' = "recv"
            /\ f1_data' = NoLData
            /\ UNCHANGED latest_data
       ELSE /\ latest_data' =
                 _listen_header(F1State(latest_data,
                                        last_known_player_lap_num_from_lap_data),
                                f1_data).latest_data
            /\ f1_pc' = "payload"
            /\ UNCHANGED f1_data
    /\ UNCHANGED <<last_known_player_lap_num_from_lap_data, f1_running, f1_whole,
                   consumer_view, tl_running, callbacks, registrations, tl_pc, tl_data, invoked>>
    /\ UNCHANGED <<logger_vars, lifecycle_vars, app_vars>>

\* F1TelemetryListener._listen: the call of _process_packet, whose handler
\* takes the lock once; an exception it raises is caught by the loop, and
\* the time-out test follows only while the session is active
F1_Payload ==
    /\ f1_pc = "payload"
    /\ LET st == _process_packet(F1State(latest_data,
                                         last_known_player_lap_num_from_lap_data),
                                 f1_data.payload, f1_data.pid, f1_data.pci)
       IN /\ latest_data' = st.latest_data
          /\ last_known_player_lap_num_from_lap_data' =
                 st.last_known_player_lap_num_from_lap_data
          /\ IF ~st.raised /\ st.latest_data.session_active /\ f1_data.pid # 1
             THEN /\ f1_pc' = "timeout"
                  /\ UNCHANGED <<f1_data, f1_whole>>
             ELSE /\ f1_pc' = "recv"
                  /\ f1_data' = NoLData
                  /\ f1_whole' = st.latest_data
    /\ UNCHANGED <<f1_running, consumer_view,
                   tl_running, callbacks, registrations, tl_pc, tl_data, invoked>>
    /\ UNCHANGED <<logger_vars, lifecycle_vars, app_vars>>

\* F1TelemetryListener._listen: the session is marked inactive when no
\* session packet arrived for more than 10 seconds
F1_Timeout ==
    /\ f1_pc = "timeout"
    /\ \E timed_out \in BOOLEAN :
         latest_data' =
             _listen_timeout(F1State(latest_data,
                                     last_known_player_lap_num_from_lap_data),
                             timed_out).latest_data
    /\ f1_whole' = latest_data'
    /\ f1_pc' = "recv"
    /\ f1_data' = NoLData
    /\ UNCHANGED <<last_known_player_lap_num_from_lap_data, f1_running, consumer_view,
                   tl_running, callbacks, registrations, tl_pc, tl_data, invoked>>
    /\ UNCHANGED <<logger_vars, lifecycle_vars, app_vars>>

\* F1TelemetryListener.stop, called from the GUI thread: it clears
\* running, marks the session inactive, closes the socket and forgets it;
\* it does not wait for the listener thread
F1_Stop ==
    /\ f1_running \/ f1_socket # 0
    /\ f1_running' = FALSE
    /\ latest_data' = [latest_data EXCEPT !.session_active = FALSE]
    /\ f1_whole' = [f1_whole EXCEPT !.session_active = FALSE]
    /\ f1_sockets' = IF f1_socket # 0
                      THEN [f1_sockets EXCEPT ![f1_socket] = "closed"]
                      ELSE f1_sockets
    /\ f1_socket' = 0
    /\ UNCHANGED <<last_known_player_lap_num_from_lap_data, f1_pc, f1_data,
                   consumer_view, tl_running, callbacks, registrations, tl_pc, tl_data, invoked>>
    /\ UNCHANGED <<f1_threads, tl_socket, tl_stop, app_running, app_socket, app_sock,
                   app_thread, app_stop, packet_count, app_callbacks>>
    /\ UNCHANGED <<logger_vars, app_vars>>

\* F1TelemetryListener._listen: the loop ends once running is False
F1_Exit ==
    /\ f1_pc = "recv" /\ ~f1_running
    /\ f1_pc' = "done"
    /\ UNCHANGED <<latest_data, last_known_player_lap_num_from_lap_data, f1_running,
                   f1_data, f1_whole, consumer_view,
                   tl_running, callbacks, registrations, tl_pc, tl_data, invoked>>
    /\ UNCHANGED <<logger_vars, lifecycle_vars, app_vars>>

\* F1TelemetryListener.get_current_telemetry, called from the GUI thread:
\* it takes the lock and returns self.latest_data
F1_GetCurrentTelemetry ==
    /\ traffic = "polling" /\ f1_pc # "off"
    /\ consumer_view' = get_current_telemetry(latest_data, f1_whole)
    /\ UNCHANGED <<latest_data, last_known_player_lap_num_from_lap_data, f1_running,
                   f1_pc, f1_data, f1_whole,
                   tl_running, callbacks, registrations, tl_pc, tl_data, invoked>>
    /\ UNCHANGED <<logger_vars, lifecycle_vars, app_vars>>

\* TelemetryListener._listen_loop: data, addr = self.socket.recvfrom(2048)
TL_Receive ==
    /\ tl_pc = "recv" /\ tl_running
    /\ Len(invoked) < MaxCallbacks
    /\ \E d \in ListenerTraffic(traffic) : tl_data' = d
    /\ tl_pc' = "process"
    /\ UNCHANGED <<latest_data, last_known_player_lap_num_from_lap_data, f1_running,
                   f1_pc, f1_data, f1_whole, consumer_view, tl_running, callbacks, registrations, invoked>>
    /\ UNCHANGED <<logger_vars, lifecycle_vars, app_vars>>

\* TelemetryListener._listen_loop: the rest of the loop body
TL_Process ==
    /\ tl_pc = "process"
    /\ \E packet_id \in HeaderPacketIds(tl_data), packet_format \in HeaderFormats(tl_data) :
         invoked' = invoked \o _listen_loop(callbacks, tl_data, packet_id, packet_format)
    /\ tl_pc' = "recv"
    /\ tl_data' = NoLData
    /\ UNCHANGED <<latest_data, last_known_player_lap_num_from_lap_data, f1_running,
                   f1_pc, f1_data, f1_whole, consumer_view, tl_running, callbacks, registrations>>
    /\ UNCHANGED <<logger_vars, lifecycle_vars, app_vars>>

\* TelemetryListener.register_callback, called while the listener runs
TL_Register ==
    /\ traffic = "callbacks" /\ tl_pc \in {"recv", "process"}
    /\ Len(registrations) < MaxRegistrations
    /\ \E r \in LateRegistrations :
         /\ callbacks' = register_callback(callbacks, r.packet_id, r.callback)
         /\ registrations' = Append(registrations, r)
    /\ UNCHANGED <<latest_data, last_known_player_lap_num_from_lap_data, f1_running,
                   f1_pc, f1_data, f1_whole, consumer_view,
                   tl_running, tl_pc, tl_data, invoked>>
    /\ UNCHANGED <<logger_vars, lifecycle_vars, app_vars>>

\* TelemetryListener.stop: running = False, then the caller waits in
\* self.thread.join()
TL_Stop ==
    /\ tl_running /\ tl_stop # "join"
    /\ tl_running' = FALSE
    /\ tl_stop' = "join"
    /\ UNCHANGED <<latest_data, last_known_player_lap_num_from_lap_data, f1_running,
                   f1_pc, f1_data, f1_whole, consumer_view, callbacks, registrations, tl_pc, tl_data, invoked>>
    /\ UNCHANGED <<f1_socket, f1_sockets, f1_threads, tl_socket, app_running, app_socket,
                   app_sock, app_thread, app_stop, packet_count, app_callbacks>>
    /\ UNCHANGED <<logger_vars, app_vars>>

\* TelemetryListener.stop: join() returns once the thread has ended, and
\* the socket is closed
TL_Join ==
    /\ tl_stop = "join" /\ tl_pc = "done"
    /\ tl_socket' = "closed"
    /\ tl_stop' = "returned"
    /\ UNCHANGED <<f1_socket, f1_sockets, f1_threads, app_running, app_socket,
                   app_sock, app_thread, app_stop, packet_count, app_callbacks>>
    /\ UNCHANGED <<logger_vars, listener_vars, app_vars>>

\* TelemetryListener._listen_loop: `while self.running` ends the loop
TL_Exit ==
    /\ tl_pc = "recv" /\ ~tl_running
    /\ tl_pc' = "done"
    /\ UNCHANGED <<latest_data, last_known_player_lap_num_from_lap_data, f1_running,
                   f1_pc, f1_data, f1_whole, consumer_view, tl_running, callbacks, registrations, tl_data, invoked>>
    /\ UNCHANGED <<logger_vars, lifecycle_vars, app_vars>>

NextListeners ==
    \/ F1_Receive \/ F1_Header \/ F1_Payload \/ F1_Timeout \/ F1_Stop \/ F1_Exit
    \/ F1_GetCurrentTelemetry
    \/ TL_Receive \/ TL_Process \/ TL_Register \/ TL_Stop \/ TL_Exit \/ TL_Join

SpecListeners == InitListeners /\ [][NextListeners]_vars

-----------------------------------------------------------------------------
(* Sockets and threads: start() and stop() of the listeners *)

\* the datagrams sent while start() and stop() are being called
LifecycleTraffics == {"f1_lifecycle", "tl_lifecycle", "app_lifecycle"}

\* `while self.running and self.socket` down to the call of _process_packet
\* and the time-out test: one iteration of _listen on datagram d
_listen(st, d, timed_out) ==
    IF d.len = 0 \/ d.len < PACKET_HEADER_SIZE
    THEN st
    ELSE LET processed == _process_packet(_listen_header(st, d), d.payload, d.pid, d.pci)
         IN IF ~processed.raised /\ processed.latest_data.session_active /\ d.pid # 1
            THEN _listen_timeout(processed, timed_out)
            ELSE processed

\* some thread is inside recvfrom on socket s
InRecvfrom(threads, s) ==
    \E t \in F1Threads : threads[t].pc = "recv" /\ threads[t].socket = s

\* a socket object nothing refers to any more is closed by the runtime
Released(sockets, threads, s, current) ==
    IF s # 0 /\ s # current /\ sockets[s] = "open" /\ ~InRecvfrom(threads, s)
    THEN [sockets EXCEPT ![s] = "closed"]
    ELSE sockets

\* the address is taken by an open socket, or by a closed one that a
\* thread is still inside recvfrom on
AddressInUse(sockets, threads, n) ==
    \E s \in F1Threads \ {n} : sockets[s] = "open" \/ InRecvfrom(threads, s)

\* F1TelemetryListener.start, called from the GUI thread: a new socket
\* replaces self.socket and is bound; then running is set and a thread is
\* started. When bind raises, running is cleared and the new socket closed.
F1_Start ==
    /\ traffic = "f1_lifecycle"
    /\ \E n \in F1Threads :
         /\ f1_sockets[n] = "none"
         /\ \A m \in F1Threads : m < n => f1_sockets[m] # "none"
         /\ LET created == Released([f1_sockets EXCEPT ![n] = "open"], f1_threads,
                                    f1_socket, n)
            IN \E bound \in BOOLEAN :
                 /\ bound => ~AddressInUse(created, f1_threads, n)
                 /\ f1_socket' = n
                 /\ f1_running' = bound
                 /\ f1_sockets' = IF bound THEN created
                                  ELSE [created EXCEPT ![n] = "closed"]
                 /\ f1_threads' = IF bound
                                  THEN [f1_threads EXCEPT ![n].pc = "test"]
                                  ELSE f1_threads
    /\ UNCHANGED <<latest_data, last_known_player_lap_num_from_lap_data,
                   f1_pc, f1_data, f1_whole, consumer_view,
                   tl_running, callbacks, registrations, tl_pc, tl_data, invoked>>
    /\ UNCHANGED <<tl_socket, tl_stop, app_running, app_socket, app_sock,
                   app_thread, app_stop, packet_count, app_callbacks>>
    /\ UNCHANGED <<logger_vars, app_vars>>

\* what a step of listener thread t leaves alone
F1ThreadFrame ==
    /\ UNCHANGED <<f1_running, f1_pc, f1_data, consumer_view,
                   tl_running, callbacks, registrations, tl_pc, tl_data, invoked>>
    /\ UNCHANGED <<f1_socket, tl_socket, tl_stop, app_running, app_socket, app_sock,
                   app_thread, app_stop, packet_count, app_callbacks>>
    /\ UNCHANGED <<logger_vars, app_vars>>

\* _listen in thread t: `while self.running and self.socket`, then the
\* call self.socket.recvfrom(2048)
F1T_Test(t) ==
    /\ f1_threads[t].pc = "test"
    /\ f1_threads' = IF f1_running /\ f1_socket # 0
                     THEN [f1_threads EXCEPT ![t].pc = "recv", ![t].socket = f1_socket]
                     ELSE [f1_threads EXCEPT ![t].pc = "done"]
    /\ UNCHANGED <<latest_data, last_known_player_lap_num_from_lap_data, f1_whole,
                   f1_sockets>>
    /\ F1ThreadFrame

\* _listen in thread t: recvfrom raises socket.timeout after 0.1 seconds
F1T_Timeout(t) ==
    /\ f1_threads[t].pc = "recv"
    /\ f1_threads' = [f1_threads EXCEPT ![t].pc = "test", ![t].socket = 0]
    /\ f1_sockets' = Released(f1_sockets, f1_threads', f1_threads[t].socket, f1_socket)
    /\ UNCHANGED <<latest_data, last_known_player_lap_num_from_lap_data, f1_whole>>
    /\ F1ThreadFrame

\* _listen in thread t: recvfrom on a closed socket raises socket.error,
\* and the loop is left when running is False
F1T_Error(t) ==
    /\ f1_threads[t].pc = "recv"
    /\ f1_sockets[f1_threads[t].socket] = "closed"
    /\ f1_threads' = [f1_threads EXCEPT ![t].pc = IF f1_running THEN "test" ELSE "done",
                                        ![t].socket = 0]
    /\ UNCHANGED <<latest_data, last_known_player_lap_num_from_lap_data, f1_whole,
                   f1_sockets>>
    /\ F1ThreadFrame

\* _listen in thread t: recvfrom returns a datagram
F1T_Receive(t) ==
    /\ f1_threads[t].pc = "recv"
    /\ f1_sockets[f1_threads[t].socket] = "open"
    /\ \E d \in ListenerTraffic(traffic) :
         f1_threads' = [f1_threads EXCEPT ![t].pc = "handle", ![t].socket = 0,
                                          ![t].data = d]
    /\ f1_sockets' = Released(f1_sockets, f1_threads', f1_threads[t].socket, f1_socket)
    /\ UNCHANGED <<latest_data, last_known_player_lap_num_from_lap_data, f1_whole>>
    /\ F1ThreadFrame

\* _listen in thread t: the rest of the loop body, which stores the header
\* fields, calls _process_packet and tests the session time-out
F1T_Handle(t) ==
    /\ f1_threads[t].pc = "handle"
    /\ \E timed_out \in BOOLEAN :
         LET st == _listen(F1State(latest_data, last_known_player_lap_num_from_lap_data),
                           f1_threads[t].data, timed_out)
         IN /\ latest_data' = st.latest_data
            /\ last_known_player_lap_num_from_lap_data' =
                   st.last_known_player_lap_num_from_lap_data
            /\ f1_whole' = st.latest_data
    /\ f1_threads' = [f1_threads EXCEPT ![t].pc = "test", ![t].data = NoLData]
    /\ UNCHANGED f1_sockets
    /\ F1ThreadFrame

\* what a step of the ctypes listener's GUI calls and thread leaves alone
TLFrame ==
    /\ UNCHANGED <<latest_data, last_known_player_lap_num_from_lap_data, f1_running,
                   f1_pc, f1_data, f1_whole, consumer_view, callbacks, registrations>>
    /\ UNCHANGED <<f1_socket, f1_sockets, f1_threads, tl_socket, app_running, app_socket,
                   app_sock, app_thread, app_stop, packet_count, app_callbacks>>
    /\ UNCHANGED <<logger_vars, app_vars>>

\* TelemetryListener.start: nothing happens while running is set; else
\* running is set and a thread runs _listen_loop
TL_Start ==
    /\ traffic = "tl_lifecycle"
    /\ tl_stop # "join" /\ ~tl_running
    /\ tl_running' = TRUE
    /\ tl_pc' = "recv"
    /\ tl_stop' = "idle"
    /\ UNCHANGED <<tl_data, invoked>>
    /\ TLFrame

\* TelemetryListener._listen_loop: `while self.running`, then the thread
\* waits inside self.socket.recvfrom(2048)
TL_Block ==
    /\ traffic = "tl_lifecycle"
    /\ tl_pc = "recv" /\ tl_running /\ tl_socket = "open"
    /\ tl_pc' = "blocked"
    /\ UNCHANGED <<tl_running, tl_stop, tl_data, invoked>>
    /\ TLFrame

\* TelemetryListener._listen_loop: recvfrom raises socket.timeout after
\* one second
TL_Timeout ==
    /\ tl_pc = "blocked"
    /\ tl_pc' = "recv"
    /\ UNCHANGED <<tl_running, tl_stop, tl_data, invoked>>
    /\ TLFrame

\* TelemetryListener._listen_loop: recvfrom returns a datagram
TL_Deliver ==
    /\ tl_pc = "blocked"
    /\ Len(invoked) < MaxCallbacks
    /\ \E d \in ListenerTraffic(traffic) : tl_data' = d
    /\ tl_pc' = "process"
    /\ UNCHANGED <<tl_running, tl_stop, invoked>>
    /\ TLFrame

\* the datagrams sent to the application's car-telemetry listener: car
\* telemetry of all 22 cars, car telemetry cut short, lap data, nothing
AppDatagrams ==
    { LDgram(PACKET_HEADER_SIZE + 22 * 60, SUPPORTED_FORMAT, 6, 0, Time1, <<>>),
      LDgram(PACKET_HEADER_SIZE + 2 * 60, SUPPORTED_FORMAT, 6, 0, Time1, <<>>),
      LDgram(PACKET_HEADER_SIZE + 2 * WIRE_LAP_DATA_SIZE, SUPPORTED_FORMAT, 2, 0, Time1, <<>>),
      LDgram(0, 0, 0, 0, Time0, <<>>) }

\* TelemetryListener._parse_telemetry of the application: a TelemetryData
\* is returned for a car-telemetry datagram that holds all 22 cars
_parse_telemetry(d) ==
    /\ d.len >= PACKET_HEADER_SIZE
    /\ d.pid = 6
    /\ d.len >= PACKET_HEADER_SIZE + 22 * 60

\* what a step of the application's listener leaves alone
AppFrame ==
    /\ UNCHANGED <<f1_socket, f1_sockets, f1_threads, tl_socket, tl_stop>>
    /\ UNCHANGED <<logger_vars, listener_vars, app_vars>>

\* TelemetryListener.start of the application: nothing happens while
\* running is set; else running is set and a thread runs _listen
App_Start ==
    /\ traffic = "app_lifecycle"
    /\ app_stop \in {"idle", "returned"} /\ ~app_running
    /\ app_running' = TRUE
    /\ app_thread' = "socket"
    /\ app_stop' = "idle"
    /\ UNCHANGED <<app_socket, app_sock, packet_count, app_callbacks>>
    /\ AppFrame

\* _listen: self.socket = socket.socket(...)
App_Socket ==
    /\ app_thread = "socket"
    /\ app_sock' = "open"
    /\ app_socket' = "set"
    /\ app_thread' = "bind"
    /\ UNCHANGED <<app_running, app_stop, packet_count, app_callbacks>>
    /\ AppFrame

\* _listen: self.socket.bind(...); an exception it raises ends the thread.
\* stop() may have closed the socket or cleared self.socket before.
App_Bind ==
    /\ app_thread = "bind"
    /\ \E bound \in BOOLEAN :
         /\ bound => app_socket = "set" /\ app_sock = "open"
         /\ app_thread' = IF bound THEN "test" ELSE "died"
    /\ UNCHANGED <<app_running, app_socket, app_sock, app_stop, packet_count, app_callbacks>>
    /\ AppFrame

\* _listen: `while self.running`, then the call self.socket.recvfrom(2048),
\* which raises at once when self.socket is None or closed
App_Test ==
    /\ app_thread = "test"
    /\ app_thread' = IF ~app_running THEN "done"
                     ELSE IF app_socket = "set" /\ app_sock = "open" THEN "recv"
                     ELSE "test"
    /\ UNCHANGED <<app_running, app_socket, app_sock, app_stop, packet_count, app_callbacks>>
    /\ AppFrame

\* _listen: recvfrom returns a datagram; it is counted, parsed and handed
\* to the callback
App_Receive ==
    /\ app_thread = "recv" /\ app_sock = "open"
    /\ packet_count < MaxPackets
    /\ \E d \in AppDatagrams :
         /\ packet_count' = IF d.len > 0 THEN packet_count + 1 ELSE packet_count
         /\ app_callbacks' = IF d.len > 0 /\ _parse_telemetry(d)
                             THEN app_callbacks + 1 ELSE app_callbacks
    /\ app_thread' = "test"
    /\ UNCHANGED <<app_running, app_socket, app_sock, app_stop>>
    /\ AppFrame

\* _listen: the socket was closed by stop() while the thread waits inside
\* recvfrom, which has no time-out. Whether the call then raises depends
\* on the platform; on Linux it keeps waiting.
App_Woken ==
    /\ app_thread = "recv" /\ app_sock = "closed"
    /\ app_thread' = "test"
    /\ UNCHANGED <<app_running, app_socket, app_sock, app_stop, packet_count, app_callbacks>>
    /\ AppFrame

\* TelemetryListener.stop of the application: self.running = False
App_Stop ==
    /\ traffic = "app_lifecycle"
    /\ app_stop \in {"idle", "returned"}
    /\ app_running \/ app_socket = "set"
    /\ app_running' = FALSE
    /\ app_stop' = "close"
    /\ UNCHANGED <<app_socket, app_sock, app_thread, packet_count, app_callbacks>>
    /\ AppFrame

\* stop(): the socket is closed and forgotten when self.socket is set
App_StopClose ==
    /\ app_stop = "close"
    /\ app_sock' = IF app_socket = "set" THEN "closed" ELSE app_sock
    /\ app_socket' = "none"
    /\ app_stop' = IF app_thread = "unborn" THEN "returned" ELSE "join"
    /\ UNCHANGED <<app_running, app_thread, packet_count, app_callbacks>>
    /\ AppFrame

\* stop(): self.thread.join() returns once the thread has ended
App_StopJoin ==
    /\ app_stop = "join"
    /\ app_thread \in {"done", "died"}
    /\ app_stop' = "returned"
    /\ UNCHANGED <<app_running, app_socket, app_sock, app_thread, packet_count, app_callbacks>>
    /\ AppFrame

\* one of the programs is about to run: main() of the logger, or a
\* listener that has been constructed and whose start() has not been called
InitLifecycle ==
    /\ LoggerGlobalsInit
    /\ AppInit
    /\ latest_data = TelemetryData
    /\ last_known_player_lap_num_from_lap_data = 0
    /\ f1_running = FALSE /\ f1_pc = "off" /\ f1_data = NoLData
    /\ f1_whole = TelemetryData /\ consumer_view = NoView
    /\ tl_running = FALSE /\ tl_pc = "off" /\ tl_data = NoLData /\ invoked = <<>>
    /\ f1_socket = 0
    /\ f1_sockets = [n \in F1Threads |-> "none"]
    /\ f1_threads = [n \in F1Threads |-> NoThread]
    /\ tl_stop = "idle"
    /\ app_running = FALSE /\ app_socket = "none" /\ app_sock = "none"
    /\ app_thread = "unborn" /\ app_stop = "idle"
    /\ packet_count = 0 /\ app_callbacks = 0
    /\ \/ /\ traffic = "session" /\ pc = "start" /\ tl_socket = "none"
          /\ registrations = <<>>
       \/ /\ traffic \in {"f1_lifecycle", "app_lifecycle"} /\ pc = "off"
          /\ tl_socket = "none"
          /\ registrations = <<>>
       \/ /\ traffic = "tl_lifecycle" /\ pc = "off" /\ tl_socket = "open"
          /\ registrations \in CallbackSets
    /\ callbacks = RegisterAll(NoCallbacks, registrations)

NextLifecycle ==
    \/ Main_Bind \/ Receive \/ Process \/ Interrupt
    \/ F1_Start \/ F1_Stop
    \/ \E t \in F1Threads :
         F1T_Test(t) \/ F1T_Timeout(t) \/ F1T_Error(t) \/ F1T_Receive(t) \/ F1T_Handle(t)
    \/ TL_Start \/ TL_Block \/ TL_Timeout \/ TL_Deliver \/ TL_Process \/ TL_Exit
    \/ TL_Stop \/ TL_Join
    \/ App_Start \/ App_Socket \/ App_Bind \/ App_Test \/ App_Receive \/ App_Woken
    \/ App_Stop \/ App_StopClose \/ App_StopJoin

SpecLifecycle == InitLifecycle /\ [][NextLifecycle]_vars

\* the threads are scheduled and a receive time-out expires; nothing is
\* assumed about datagrams arriving or about GUI calls being made
LifecycleFairness ==
    /\ \A t \in F1Threads :
         WF_vars(F1T_Test(t)) /\ WF_vars(F1T_Timeout(t)) /\ WF_vars(F1T_Handle(t))
    /\ WF_vars(TL_Block) /\ WF_vars(TL_Timeout) /\ WF_vars(TL_Process)
    /\ WF_vars(TL_Exit) /\ WF_vars(TL_Join)
    /\ WF_vars(App_Socket) /\ WF_vars(App_Bind) /\ WF_vars(App_Test)
    /\ WF_vars(App_StopClose) /\ WF_vars(App_StopJoin)

SpecLifecycleFair == SpecLifecycle /\ LifecycleFairness

-----------------------------------------------------------------------------

(* The application: F1TelemetryApp of src/main.py *)

\* the ctypes listener calls _handle_lap_data with a lap-data packet
HandleLapData ==
    /\ traffic \in AppTraffics
    /\ Len(app.lap_times) < MaxLapTimes
    /\ data_logger.is_recording => data_logger.calls < MaxRecords
    /\ \E packet \in AppTraffic(traffic) :
         /\ app' = _handle_lap_data(app, packet)
         /\ lap_packet' = packet
         /\ data_logger' = _handle_lap_data_recording(
                               data_logger, app, _handle_lap_data(app, packet),
                               packet.m_lapData[1])
    /\ UNCHANGED <<logger_vars, listener_vars, lifecycle_vars>>

\* the ctypes listener calls _handle_car_telemetry while a session is
\* recorded
HandleCarTelemetry ==
    /\ traffic = "recording"
    /\ data_logger.is_recording /\ data_logger.calls < MaxRecords
    /\ data_logger' = _handle_car_telemetry(data_logger, app)
    /\ UNCHANGED <<app, lap_packet>>
    /\ UNCHANGED <<logger_vars, listener_vars, lifecycle_vars>>

\* the GUI's record button: F1TelemetryApp._start_recording
StartRecording ==
    /\ traffic = "recording"
    /\ ~data_logger.is_recording /\ data_logger.sessions < MaxRecordings
    /\ data_logger' = start_session(data_logger)
    /\ UNCHANGED <<app, lap_packet>>
    /\ UNCHANGED <<logger_vars, listener_vars, lifecycle_vars>>

\* the GUI's stop button: F1TelemetryApp._stop_recording
StopRecording ==
    /\ traffic = "recording"
    /\ data_logger.is_recording
    /\ data_logger' = stop_session(data_logger)
    /\ UNCHANGED <<app, lap_packet>>
    /\ UNCHANGED <<logger_vars, listener_vars, lifecycle_vars>>

InitApp ==
    /\ LoggerGlobalsInit
    /\ pc = "off"
    /\ traffic \in AppTraffics
    /\ ListenersOff
    /\ LifecycleOff
    /\ AppInit

NextApp == HandleLapData \/ HandleCarTelemetry \/ StartRecording \/ StopRecording

SpecApp == InitApp /\ [][NextApp]_vars

-----------------------------------------------------------------------------

(* Properties of the logger *)

PendingKeys == { pending_lap_details[i].key : i \in 1..Len(pending_lap_details) }

\* the rows the step appends to the CSV file
NewRows == { csv_rows'[j] : j \in (Len(csv_rows) + 1)..Len(csv_rows') }

\* the datagram in hand passes main()'s length and format checks
Accepted == pc = "process" /\ data.len >= 24 /\ data.fmt = 2022

\* the player index in force while the datagram in hand is handled
PlayerIndexInForce ==
    IF 0 <= data.pci /\ data.pci <= 21 THEN data.pci ELSE player_car_index

\* ms milliseconds as a seconds value with three decimals
Seconds(ms) == [neg |-> FALSE, whole |-> ms \div 1000, milli |-> ms % 1000]

\* C1: whatever packets arrive (repeated lap-data packets for the same lap,
\* re-delivered history packets), the CSV file never holds two rows with the
\* same session id and lap number.
C1_OneFinalizedLapPerKey ==
    \A i, j \in 1..Len(csv_rows) :
        (/\ csv_rows[i].session_id = csv_rows[j].session_id
         /\ csv_rows[i].lap_number = csv_rows[j].lap_number) => i = j

\* a history packet for the player's car is in hand that covers a lap of
\* the current session that is already in the CSV file
C1_Witness ==
    /\ Accepted /\ data.pid = 11 /\ data.pci = player_car_index
    /\ data.len >= 24 + 7 + 11
    /\ \E i \in 1..Len(csv_rows) :
         /\ csv_rows[i].session_id = current_session_id
         /\ csv_rows[i].lap_number <= data.hist.num_laps
         /\ <<current_session_id, csv_rows[i].lap_number>> \in logged_laps_in_session

\* C2: a session packet whose (UID, session type) pair differs from the
\* last-seen pair gives the logger a session id it never had and empties
\* the pending table and the finalized set.
C2_NewSessionClearsLaps ==
    [][ (/\ Accepted /\ data.pid = 1 /\ data.len >= 24 + 8
         /\ \/ data.uid # last_processed_session_uid
            \/ data.session.session_type # last_processed_session_type)
        => (/\ current_session_id' # None
            /\ current_session_id' # current_session_id
            /\ \A i \in 1..Len(csv_rows) :
                 csv_rows[i].session_id # current_session_id'
            /\ pending_lap_details' = <<>>
            /\ logged_laps_in_session' = {}
            /\ last_processed_session_uid' = data.uid
            /\ last_processed_session_type' = data.session.session_type) ]_vars

\* the same lap number has been finalized under two session ids
C2_Witness ==
    \E i, j \in 1..Len(csv_rows) :
        /\ csv_rows[i].lap_number = csv_rows[j].lap_number
        /\ csv_rows[i].session_id # csv_rows[j].session_id

\* a lap-data packet is in hand whose header names the player's car, with
\* that car's 43-byte entry inside the buffer, while a session id is known
LapEntryInHand ==
    /\ Accepted /\ data.pid = 2
    /\ current_session_id # None
    /\ 0 <= data.pci /\ data.pci <= 21
    /\ data.len >= 24 + 43 * (data.pci + 1)

\* C3 as claimed: a lap-data packet whose player entry has lastLapTimeMS > 0
\* and currentLapNum = n > 1, handled while the session id and the player
\* index are known and (session, n-1) is neither pending nor finalized, adds
\* exactly the pending lap (session, n-1) and changes no other pending or
\* finalized entry; with lastLapTimeMS = 0 or n <= 1 nothing is added.
\* (Read in the claim's favour: only packets whose header carries a player
\* index in 0..21 are considered; the handler drops the others.)
C3_AsClaimed ==
    [][ LapEntryInHand =>
          LET e == data.lap[data.pci + 1]
              key == <<current_session_id, e.current_lap_num - 1>>
          IN /\ (/\ e.last_lap_time_ms > 0 /\ e.current_lap_num > 1
                 /\ key \notin PendingKeys /\ key \notin logged_laps_in_session)
                => /\ Len(pending_lap_details') = Len(pending_lap_details) + 1
                   /\ SubSeq(pending_lap_details', 1, Len(pending_lap_details))
                         = pending_lap_details
                   /\ pending_lap_details'[Len(pending_lap_details')].key = key
                   /\ logged_laps_in_session' = logged_laps_in_session
                   /\ csv_rows' = csv_rows
             /\ (e.last_lap_time_ms = 0 \/ e.current_lap_num <= 1)
                => pending_lap_details' = pending_lap_details ]_vars

\* C4 as claimed: a history packet for the player's car (its payload carIdx
\* is the player's car index) with lap count L finalizes every pending lap n
\* of the current session with 1 <= n <= L whose entry n-1 lies within the
\* buffer: a row with lap number n, total, sector 1 and sector 2 the entry's
\* times in seconds and valid = bit 0 of its flags is written and the lap
\* leaves the pending table; pending laps with n > L stay pending.
C4_AsClaimed ==
    [][ (/\ Accepted /\ data.pid = 11 /\ data.len >= 24 + 7
         /\ PlayerIndexInForce # None
         /\ data.hist.car_idx = PlayerIndexInForce)
        => \A i \in 1..Len(pending_lap_details) :
             LET p == pending_lap_details[i]
                 n == p.key[2]
             IN /\ (/\ p.key[1] = current_session_id
                    /\ 1 <= n /\ n <= data.hist.num_laps
                    /\ 24 + 7 + 11 * n <= data.len)
                   => /\ \E r \in NewRows :
                           /\ r.session_id = current_session_id
                           /\ r.lap_number = n
                           /\ r.total = Seconds(data.hist.entries[n].lap_time_ms)
                           /\ r.s1 = Seconds(data.hist.entries[n].s1)
                           /\ r.s2 = Seconds(data.hist.entries[n].s2)
                           /\ r.valid = (data.hist.entries[n].flags % 2 = 1)
                      /\ \A k \in 1..Len(pending_lap_details') :
                           pending_lap_details'[k].key # p.key
                      /\ p.key \in logged_laps_in_session'
                /\ n > data.hist.num_laps
                   => \E k \in 1..Len(pending_lap_details') :
                        pending_lap_details'[k] = p ]_vars

\* C5 as claimed: a history packet whose payload carIdx is not the player's
\* car index writes no row and leaves the pending table and the finalized
\* set as they were.
C5_AsClaimed ==
    [][ (/\ Accepted /\ data.pid = 11 /\ data.len >= 24 + 7
         /\ data.hist.car_idx # PlayerIndexInForce)
        => (/\ csv_rows' = csv_rows
            /\ pending_lap_details' = pending_lap_details
            /\ logged_laps_in_session' = logged_laps_in_session) ]_vars

\* C6 as claimed: handling a datagram never ends the receive loop.
C6_AsClaimed == [][ pc = "process" => pc' = "recv" ]_vars

\* C7: no row ever written has a negative sector 3, and a row written for an
\* entry with s1MS + s2MS > lapTimeMS, direct s3 field 0 and sector-3 bit unset
\* has sector 3 = 0.000.
C7_Sector3NeverNegative ==
    /\ [](\A i \in 1..Len(csv_rows) :
            \/ ~csv_rows[i].s3.neg
            \/ (csv_rows[i].s3.whole = 0 /\ csv_rows[i].s3.milli = 0))
    /\ [][ \A n \in 1..Len(data.hist.entries) :
             LET e == data.hist.entries[n] IN
               (/\ e.s1 + e.s2 > e.lap_time_ms /\ e.s3 = 0 /\ (e.flags \div 8) % 2 = 0)
               => \A r \in NewRows :
                    r.lap_number = n => r.s3 = Seconds(0) ]_vars

\* a row was written for an entry whose sector times exceed its lap time
C7_Witness ==
    \E i \in 1..Len(csv_rows) :
        /\ csv_rows[i].s1.whole * 1000 + csv_rows[i].s1.milli
             + csv_rows[i].s2.whole * 1000 + csv_rows[i].s2.milli
             > csv_rows[i].total.whole * 1000 + csv_rows[i].total.milli
        /\ csv_rows[i].s3 = [neg |-> FALSE, whole |-> 0, milli |-> 0]

\* C8: the sector 3 of a row is lapTimeMS - s1MS - s2MS of its entry when
\* that is not negative; when it is negative, the entry's direct s3MS if bit 3
\* of the flags is set and s3MS > 0, and 0 otherwise.
C8_Sector3Reconciled ==
    [][ \A r \in NewRows :
          LET e == data.hist.entries[r.lap_number]
              calc == e.lap_time_ms - e.s1 - e.s2
          IN r.s3 = IF calc >= 0 THEN Seconds(calc)
                    ELSE IF (e.flags \div 8) % 2 = 1 /\ e.s3 > 0 THEN Seconds(e.s3)
                    ELSE Seconds(0) ]_vars

\* a row was written whose sector 3 is the direct field of its entry:
\* it is not the remainder of the row's total
C8_Witness ==
    \E i \in 1..Len(csv_rows) :
        LET r == csv_rows[i]
            ms(t) == t.whole * 1000 + t.milli
        IN /\ ms(r.s1) + ms(r.s2) > ms(r.total)
           /\ ms(r.s3) > 0

\* C9: a datagram whose format value is not 2022 changes nothing: session
\* id, last-seen (UID, type) pair, player index, context, pending table,
\* finalized set and CSV file are as before, and the loop goes on.
C9_ForeignFormatIgnored ==
    [][ (pc = "process" /\ data.len >= 24 /\ data.fmt # 2022)
        => (/\ UNCHANGED <<current_session_id, last_processed_session_uid,
                           last_processed_session_type,
                           last_session_id_for_lap_reset_cache, player_car_index,
                           current_track_name, current_race_car,
                           current_session_type_str, current_weather_str,
                           pending_lap_details, logged_laps_in_session, csv_rows>>
            /\ pc' = "recv") ]_vars

\* a session packet of another format is in hand before any session exists
C9_Witness ==
    /\ pc = "process" /\ data.len >= 24 + 8 /\ data.fmt # 2022 /\ data.pid = 1
    /\ current_session_id = None
    /\ data.pci # player_car_index

-----------------------------------------------------------------------------
(* Properties of the threaded listeners *)

\* a datagram with a full header and a format other than the supported one
ForeignFormat(d) == d.len >= 24 /\ d.fmt # 2022

\* C10 as claimed: in both threaded listeners a datagram whose header format
\* differs from 2022 is dropped: handling it changes no field of the decoded
\* state (the session time-out flag set aside) and invokes no registered
\* callback.
C10_AsClaimed ==
    [][ /\ (f1_pc \in {"process", "payload", "timeout"} /\ f1_pc' # f1_pc
            /\ ForeignFormat(f1_data))
           => /\ [latest_data' EXCEPT !.session_active = latest_data.session_active]
                    = latest_data
              /\ last_known_player_lap_num_from_lap_data'
                    = last_known_player_lap_num_from_lap_data
        /\ (tl_pc = "process" /\ tl_pc' = "recv" /\ ForeignFormat(tl_data))
           => invoked' = invoked ]_vars

\* C11 as claimed: in the logger and in both threaded listeners a buffer
\* shorter than 24 bytes is rejected before anything is read from it:
\* handling it changes no state, invokes no callback, and the loop goes on
\* to the next datagram.
C11_AsClaimed ==
    [][ /\ (pc = "process" /\ data.len < 24)
           => (UNCHANGED <<current_session_id, player_car_index, pending_lap_details,
                           logged_laps_in_session, csv_rows>> /\ pc' = "recv")
        /\ (f1_pc \in {"process", "payload", "timeout"} /\ f1_pc' # f1_pc
            /\ f1_data.len < 24)
           => UNCHANGED <<latest_data, last_known_player_lap_num_from_lap_data>>
        /\ (tl_pc = "process" /\ tl_pc' # tl_pc /\ tl_data.len < 24)
           => invoked' = invoked ]_vars

\* the datagram in hand has a whole header of the supported format, its
\* handler gets as far as reading the payload, and a field it reads lies
\* beyond the end of the buffer
PayloadTooShort ==
    LET st == UpdatePlayerCarIndex(LoggerState, data)
        lap_offset == PACKET_HEADER_SIZE + st.player_car_index * LAP_DATA_SINGLE_CAR_SIZE
        UnreadableEntry(p) ==
            /\ p.key[1] = st.current_session_id
            /\ LapInHistory(p.key[2], data.hist.num_laps)
            /\ ~FinalizedByPacket(st, data, p)
    IN /\ data.len >= PACKET_HEADER_SIZE
       /\ FormatSupported(data.fmt)
       /\ CASE data.pid = 1 ->
                 ~CanUnpack(data, PACKET_HEADER_SIZE, SESSION_DATA_SIZE)
            [] data.pid = 2 ->
                 /\ st.player_car_index # None /\ st.current_session_id # None
                 /\ ValidCarIndex(data.pci)
                 /\ ~(/\ CanUnpack(data, lap_offset, 4)
                      /\ CanUnpack(data, lap_offset + CURRENT_LAP_NUM_OFFSET, 1))
            [] data.pid = 4 ->
                 /\ st.player_car_index # None
                 /\ ~CanUnpack(data, PACKET_HEADER_SIZE + 1
                                 + st.player_car_index * PARTICIPANT_DATA_ENTRY_SIZE,
                               PARTICIPANT_DATA_ENTRY_SIZE)
            [] data.pid = 11 ->
                 /\ st.player_car_index # None /\ st.current_session_id # None
                 /\ history_car_idx(data) = st.player_car_index
                 /\ \/ ~CanUnpack(data, PACKET_HEADER_SIZE, SESSION_HISTORY_LEAD_DATA_SIZE)
                    \/ \E i \in 1..Len(st.pending_lap_details) :
                         UnreadableEntry(st.pending_lap_details[i])
            [] OTHER -> FALSE

\* C12 as claimed: handling a datagram whose payload is too short for a
\* field its handler reads leaves the session id, the track, session-type,
\* weather and car context, the pending table and the finalized set as
\* they were.
C12_AsClaimed ==
    [][ (pc = "process" /\ PayloadTooShort)
        => UNCHANGED <<current_session_id, current_track_name,
                       current_session_type_str, current_weather_str,
                       current_race_car, pending_lap_details,
                       logged_laps_in_session>> ]_vars

\* C13 as claimed: whatever get_current_telemetry() returns to a consumer
\* is the state left by a whole number of completely processed datagrams.
C13_AsClaimed ==
    consumer_view.valid => consumer_view.seen = consumer_view.whole

\* a session packet whose payload can be read is in hand and its
\* (UID, session type) is the pair last seen
SamePairInHand ==
    /\ pc = "process" /\ Accepted /\ data.pid = 1
    /\ CanUnpack(data, PACKET_HEADER_SIZE, SESSION_DATA_SIZE)
    /\ data.uid = last_processed_session_uid
    /\ data.session.session_type = last_processed_session_type

\* C14: a session packet whose (UID, session type) equals the last-seen
\* pair leaves the local session id as it is and removes nothing from the
\* pending table or the finalized set.
C14_SamePairKeepsSession ==
    [][ SamePairInHand
        => UNCHANGED <<current_session_id, pending_lap_details,
                       logged_laps_in_session>> ]_vars

\* such a packet arrives while a lap is pending and another is finalized
C14_Witness ==
    /\ SamePairInHand
    /\ current_session_id # None
    /\ pending_lap_details # <<>>
    /\ logged_laps_in_session # {}

\* C15: no pending lap exists and no row has been written while the local
\* session id does not exist or the player's car index is unknown.
C15_NoLapBeforeSessionAndIndex ==
    (current_session_id = None \/ player_car_index = None)
        => /\ pending_lap_details = <<>>
           /\ logged_laps_in_session = {}
           /\ csv_rows = <<>>

\* a lap-data packet showing a completed lap for the player is in hand
\* before any session packet has been decoded
C15_Witness ==
    /\ Accepted /\ data.pid = 2
    /\ current_session_id = None
    /\ data.pci = 0 /\ data.len >= LapLen(1)
    /\ LapJustCompleted(data.lap[1].last_lap_time_ms, data.lap[1].current_lap_num)

\* C16: the stored player-car-index is unknown or within 0..21, and
\* handling a datagram whose header index lies outside 0..21 (255, say)
\* leaves the stored index as it is.
C16_PlayerIndexInRange ==
    /\ [](player_car_index = None \/ player_car_index \in 0..21)
    /\ [][ (pc = "process" /\ ~(data.pci \in 0..21))
           => player_car_index' = player_car_index ]_vars

\* a datagram of the supported format with header index 255 is in hand
\* while a valid index is stored
C16_Witness ==
    /\ Accepted /\ data.pci = 255
    /\ player_car_index \in 0..21

\* the context a pending lap or a written row carries
ContextOf(r) == <<r.session_type, r.track_name, r.race_car, r.weather>>

\* the tracker's current context
CurrentContext ==
    <<current_session_type_str, current_track_name, current_race_car,
      current_weather_str>>

\* C17: a pending lap is created with the session type, track, car and
\* weather current at that moment; while it stays pending no packet changes
\* what it carries; and the row written for it carries exactly that.
C17_RowCarriesContextAtCreation ==
    [][ /\ \A j \in 1..Len(pending_lap_details') :
             LET q == pending_lap_details'[j] IN
             IF q.key \in PendingKeys
             THEN \A i \in 1..Len(pending_lap_details) :
                    pending_lap_details[i].key = q.key
                        => pending_lap_details[i].details = q.details
             ELSE ContextOf(q.details) = CurrentContext
        /\ \A r \in NewRows :
             \E i \in 1..Len(pending_lap_details) :
                /\ pending_lap_details[i].key = <<r.session_id, r.lap_number>>
                /\ ContextOf(r) = ContextOf(pending_lap_details[i].details) ]_vars

\* a row of the current session was written with a car other than the
\* current one: the context changed between the lap's creation and its
\* finalization
C17_Witness ==
    \E i \in 1..Len(csv_rows) :
        /\ csv_rows[i].session_id = current_session_id
        /\ csv_rows[i].race_car # current_race_car

\* the history packet in hand finalizes the pending lap with key k: the lap
\* is of the current session, the packet's lap count reaches its number,
\* its entry lies inside the buffer, and its row is written
FinalizedByHistory(k) ==
    /\ Accepted /\ data.pid = 11
    /\ k[1] = current_session_id
    /\ data.hist.num_laps >= k[2]
    /\ CanUnpack(data, PACKET_HEADER_SIZE + SESSION_HISTORY_LEAD_DATA_SIZE
                         + (k[2] - 1) * LAP_HISTORY_ENTRY_SIZE,
                 LAP_HISTORY_ENTRY_SIZE)
    /\ \E r \in NewRows : <<r.session_id, r.lap_number>> = k
    /\ k \in logged_laps_in_session'

\* the session packet in hand starts a new session
NewSessionStarted ==
    /\ Accepted /\ data.pid = 1
    /\ current_session_id' # current_session_id

\* C18: a pending lap leaves the pending table only when a session-history
\* packet whose lap count reaches its number and whose entry for it is
\* readable finalizes it, or when a new session is detected; no other
\* packet removes it.
C18_PendingUntilHistoryOrNewSession ==
    [][ \A k \in PendingKeys :
          k \notin { pending_lap_details'[j].key : j \in 1..Len(pending_lap_details') }
              => (FinalizedByHistory(k) \/ NewSessionStarted) ]_vars

\* a history packet for the player is in hand whose lap count does not
\* reach a pending lap of the current session
C18_Witness ==
    /\ Accepted /\ data.pid = 11
    /\ data.pci = player_car_index
    /\ CanUnpack(data, PACKET_HEADER_SIZE, SESSION_HISTORY_LEAD_DATA_SIZE)
    /\ \E i \in 1..Len(pending_lap_details) :
          /\ pending_lap_details[i].key[1] = current_session_id
          /\ pending_lap_details[i].key[2] > data.hist.num_laps
          /\ data.hist.num_laps >= 1

\* a lap-finished event whose fields can all be read is about to be decoded
LapFinishedInHand ==
    /\ f1_pc = "payload" /\ f1_pc' # f1_pc
    /\ f1_data.pid = 3
    /\ HasBytes(f1_data.payload, 0, 13)
    /\ SubSeq(f1_data.payload, 1, 4) = CodeLAFN

\* the event is for the player's car, its lap number has no record in
\* completed_laps_history, and its lap time is positive
ProvisionalLapDue ==
    /\ U8(f1_data.payload, 4) = latest_data.player_car_index
    /\ \A k \in 1..Len(latest_data.completed_laps_history) :
          latest_data.completed_laps_history[k].lap_number # latest_data.current_lap_num
    /\ U32(f1_data.payload, 5) > 0

\* the step publishes a provisional lap with sector 3 equal to s3
PublishesProvisional(s3) ==
    latest_data'.newly_completed_lap_event =
        CompletedLap(latest_data.current_lap_num, U32(f1_data.payload, 5),
                     U16(f1_data.payload, 9), U16(f1_data.payload, 11), s3,
                     ~latest_data.current_lap_invalid, TRUE)

HistoryContainsLap(n) ==
    LET payload == f1_data.payload
        wire_offset == SESSION_HISTORY_LEAD_DATA_SIZE + (n - 1) * LAP_HISTORY_ENTRY_SIZE
    IN /\ f1_pc = "payload" /\ f1_pc' # f1_pc
       /\ f1_data.pid = 11
       /\ HasBytes(payload, 0, SESSION_HISTORY_LEAD_DATA_SIZE)
       /\ U8(payload, 0) = latest_data.player_car_index
       /\ n <= U8(payload, 1)
       /\ HasBytes(payload, wire_offset, LAP_HISTORY_ENTRY_SIZE)
       /\ U32(payload, wire_offset) > 0

\* completed_laps_history has one record at most for each lap number
OneRecordPerLapNumber ==
    \A i, j \in 1..Len(latest_data.completed_laps_history) :
        latest_data.completed_laps_history[i].lap_number
            = latest_data.completed_laps_history[j].lap_number => i = j

\* no record of completed_laps_history is a provisional one
NoEventLapInHistory ==
    \A i \in 1..Len(latest_data.completed_laps_history) :
        ~latest_data.completed_laps_history[i].is_event_lap

\* C20 as claimed: completed_laps_history holds at most one record per lap
\* number, and once a history packet containing lap n has been processed
\* the record for n is there and is a history record (is_event_lap false).
C20_AsClaimed ==
    /\ [](OneRecordPerLapNumber /\ NoEventLapInHistory)
    /\ [][ \A n \in 1..2 :
             HistoryContainsLap(n)
                 => \E i \in 1..Len(latest_data'.completed_laps_history) :
                       /\ latest_data'.completed_laps_history[i].lap_number = n
                       /\ ~latest_data'.completed_laps_history[i].is_event_lap ]_vars

\* the callback of the last register_callback call made for packet id k
RECURSIVE LastRegistered(_, _)
LastRegistered(calls, k) ==
    IF calls = <<>> THEN NoCallback
    ELSE IF calls[Len(calls)].packet_id = k THEN calls[Len(calls)].callback
    ELSE LastRegistered(SubSeq(calls, 1, Len(calls) - 1), k)

\* the ctypes listener handles a datagram with a complete header
WholeHeaderHandled ==
    tl_pc = "process" /\ tl_pc' # tl_pc /\ tl_data.len >= PACKET_HEADER_SIZE

\* the callback invocations the step makes
NewInvocations == SubSeq(invoked', Len(invoked) + 1, Len(invoked'))

\* the step invokes the last callback registered for k once if the datagram
\* in hand has packet id k, and makes no invocation for k otherwise
InvokedOnceFor(k) ==
    IF tl_data.pid = k
    THEN /\ Len(NewInvocations) = 1
         /\ NewInvocations[1].packet_id = k
         /\ NewInvocations[1].packet_format = tl_data.fmt
         /\ NewInvocations[1].callback = LastRegistered(registrations, k)
    ELSE \A i \in 1..Len(NewInvocations) : NewInvocations[i].packet_id # k

\* C21 as claimed: for every packet id k with a registered callback, a
\* datagram with a complete header and packet id k leads to exactly one
\* invocation of the callback registered last for k, and a datagram of
\* another type does not invoke it.
C21_AsClaimed ==
    [][ WholeHeaderHandled
        => \A k \in PACKET_IDS :
              LastRegistered(registrations, k) # NoCallback => InvokedOnceFor(k) ]_vars

\* C21 amended: the same for the packet ids that have a structure in
\* PACKET_STRUCTURES (1, 2 and 6); a datagram of any other packet id
\* invokes no callback, registered or not.
C21_CallbackPerKnownPacketType ==
    [][ WholeHeaderHandled
        => /\ \A k \in PACKET_STRUCTURES :
                LastRegistered(registrations, k) # NoCallback => InvokedOnceFor(k)
           /\ tl_data.pid \notin PACKET_STRUCTURES => NewInvocations = <<>> ]_vars

\* a lap-data datagram has been delivered to the callback registered second
\* for packet id 2
C21_Witness ==
    /\ Len(registrations) = 2
    /\ registrations[1].packet_id = 2 /\ registrations[2].packet_id = 2
    /\ registrations[1].callback # registrations[2].callback
    /\ \E i \in 1..Len(invoked) :
          invoked[i].packet_id = 2 /\ invoked[i].callback = registrations[2].callback

-----------------------------------------------------------------------------
(* Properties of the sockets and threads *)

\* main() of the logger has returned
MainReturned == pc = "exited"

\* _listen of the application's listener has ended, by leaving its loop
\* or by an exception
AppListenEnded == app_thread \in {"done", "died"}

\* C22 as claimed: every socket a listener creates is closed on every exit
\* path of the routine that owns it: once main() of the logger has returned
\* its socket is closed, and once _listen of the application's listener
\* has ended the socket it created is closed, also when bind failed.
C22_AsClaimed ==
    /\ MainReturned => sock = "closed"
    /\ AppListenEnded => app_sock = "closed"

\* listener thread t is inside recvfrom on an open socket
Receiving(t) ==
    /\ f1_threads[t].pc = "recv"
    /\ f1_sockets[f1_threads[t].socket] = "open"

\* listener thread t is handling a datagram, which mutates latest_data
Mutating(t) == f1_threads[t].pc = "handle"

\* C29 as claimed: under any interleaving of start() and stop() with the
\* listener thread, at most one thread of F1TelemetryListener is receiving
\* datagrams or mutating latest_data at any time.
C29_AsClaimed ==
    Cardinality({t \in F1Threads : Receiving(t) \/ Mutating(t)}) <= 1

\* thread t of F1TelemetryListener is inside _listen
F1Listening(t) == f1_threads[t].pc \in {"test", "recv", "handle"}

\* stop() of F1TelemetryListener was the last call made
F1Stopped == ~f1_running /\ f1_socket = 0

\* stop() of the ctypes TelemetryListener has been called and waits for
\* the listener thread
TLStopped == ~tl_running /\ tl_stop = "join"

\* C23 as claimed: for the listeners that set a receive time-out, once
\* stop() has been called the listener thread eventually leaves its receive
\* loop and terminates, even if no further datagram arrives.
C23_AsClaimed ==
    /\ TLStopped ~> tl_pc = "done"
    /\ \A t \in F1Threads :
         (F1Stopped /\ F1Listening(t)) ~> f1_threads[t].pc = "done"

\* a stop() of the application's listener is in progress and its thread
\* has not ended
AppStopping == app_stop \in {"close", "join"} /\ app_thread \in {"socket", "bind", "test", "recv"}

\* C30 as claimed: a call of stop() of the application's car-telemetry
\* listener made while the listener thread is running eventually returns,
\* even if no further datagram arrives.
C30_AsClaimed == AppStopping ~> app_stop = "returned"

-----------------------------------------------------------------------------
(* Properties of the application's lap tracking *)

\* the entry of the player's car in the packet handled by this step
HandledLapData == lap_packet'.m_lapData[1]

-----------------------------------------------------------------------------
(* Properties of the logger's session context *)

\* C25 as claimed: when the logger detects a new session after an earlier
\* one, the session context is replaced as a whole, so the car established
\* under the earlier session is no longer in it and cannot be captured by a
\* pending lap of the new session.
C25_AsClaimed ==
    [][ (NewSessionStarted /\ current_session_id # None)
          => current_race_car' = "Unknown" ]_vars

-----------------------------------------------------------------------------
(* Properties of F1TelemetryListener's session handling *)

\* _process_packet is applied to the datagram in hand by this step
F1PayloadHandled == f1_pc = "payload" /\ f1_pc' # f1_pc

\* the session packet in hand carries another session type than the
\* session packet before it
SessionTypeChanged ==
    /\ f1_data.pid = 1
    /\ HasBytes(f1_data.payload, 11, 1)
    /\ latest_data.session_active
    /\ U8(f1_data.payload, 11) # latest_data.session_type_id

\* C26 as claimed: the completed lap records of the prior session are
\* cleared whenever a session packet arrives whose wire session UID or
\* session type differs from the previous session packet's.
C26_AsClaimed ==
    [][ (F1PayloadHandled /\ SessionTypeChanged)
          => latest_data'.completed_laps_history = <<>> ]_vars

\* the fields of latest_data that _process_packet derives from payloads
PayloadFields(ld) ==
    <<ld.session_active, ld.completed_laps_history, ld.weather_id, ld.weather_str,
      ld.track_id, ld.track_name, ld.session_type_id, ld.session_type_str,
      ld.current_lap_time_sec, ld.current_sector, ld.current_lap_num,
      ld.current_lap_invalid>>

\* the payload in hand is too short for a field its handler reads
PayloadReadFails ==
    _process_packet(F1State(latest_data, last_known_player_lap_num_from_lap_data),
                    f1_data.payload, f1_data.pid, f1_data.pci).raised

\* C27 as claimed: the payload fields of one datagram are applied all or
\* none: a datagram whose payload is too short for some field its handler
\* reads leaves every payload-derived field of latest_data unchanged.
C27_AsClaimed ==
    [][ (F1PayloadHandled /\ PayloadReadFails)
          => PayloadFields(latest_data') = PayloadFields(latest_data) ]_vars

-----------------------------------------------------------------------------
(* Properties of TelemetryListener's delivery *)

\* the loop body of _listen_loop has run for the datagram in hand
TLDatagramHandled == tl_pc = "process" /\ tl_pc' # tl_pc

\* C28 as claimed: a callback of the ctypes listener only receives
\* structures whose every byte was copied from the datagram; a datagram
\* shorter than the structure of its packet type is not delivered.
C28_AsClaimed ==
    [][ TLDatagramHandled
        => \A i \in 1..Len(NewInvocations) :
              NewInvocations[i].copied = NewInvocations[i].size ]_vars

-----------------------------------------------------------------------------
(* Properties of the logger's pending table and finalized set *)

\* the (session id, lap number) keys of the rows the step appends
NewRowKeys == { <<r.session_id, r.lap_number>> : r \in NewRows }

\* C31: a row is written only by a session-history packet, and only for a
\* (session, lap) key that is pending when the packet arrives; a key
\* becomes pending only while a lap-data packet is handled. A history
\* packet never finalizes a lap that is not pending, whatever lap count and
\* entries it carries.
C31_FinalizedOnlyFromPending ==
    [][ /\ NewRowKeys # {} => (data.pid = 11 /\ NewRowKeys \subseteq PendingKeys)
        /\ PendingKeys' \ PendingKeys # {} => data.pid = 2 ]_vars

\* lap 2 of the current session has been finalized by a history packet
\* that also carried lap 1, which was never pending and has no row
C31_Witness ==
    /\ current_session_id # None
    /\ \E i \in 1..Len(csv_rows) :
          csv_rows[i].session_id = current_session_id /\ csv_rows[i].lap_number = 2
    /\ \A i \in 1..Len(csv_rows) :
          csv_rows[i].session_id = current_session_id => csv_rows[i].lap_number # 1
    /\ <<current_session_id, 1>> \notin PendingKeys

\* main() is not in the middle of its loop body: the datagram received
\* last has been processed
DatagramProcessed == pc # "process"

\* C32: after each datagram has been processed, no (session, lap) key is
\* both in pending_lap_details and in logged_laps_in_session.
C32_PendingAndLoggedDisjoint ==
    DatagramProcessed => PendingKeys \cap logged_laps_in_session = {}

\* one lap of the current session is logged while a later one is pending
C32_Witness ==
    /\ DatagramProcessed
    /\ <<current_session_id, 1>> \in logged_laps_in_session
    /\ <<current_session_id, 2>> \in PendingKeys

\* C33: after each datagram has been processed, every key of
\* pending_lap_details and of logged_laps_in_session carries the current
\* session id; no entry of an earlier session survives a session change.
C33_KeysOfCurrentSession ==
    DatagramProcessed
      => \A key \in PendingKeys \cup logged_laps_in_session :
            key[1] = current_session_id

\* a lap of an earlier session is in the CSV file and a lap of the current
\* session is pending
C33_Witness ==
    /\ DatagramProcessed
    /\ \E i \in 1..Len(csv_rows) : csv_rows[i].session_id # current_session_id
    /\ \E key \in PendingKeys : key[1] = current_session_id

\* the step completes the tracked lap: the packet handled has another
\* current lap number and gui.add_lap_time is called for the tracked lap
LapCompleted ==
    /\ HandledLapData.m_currentLapNum # app.current_lap_number
    /\ Len(app'.lap_times) = Len(app.lap_times) + 1

\* gui.add_lap_time's arguments in this step
ReportedLap == app'.lap_times[Len(app'.lap_times)]

\* C34 as claimed: the completed lap N is reported invalid only if a
\* packet of lap N had currentLapInvalid set, which is what
\* current_lap_invalid records before the first packet of lap N+1 is
\* handled; the flag of that first packet marks lap N+1, not lap N.
C34_AsClaimed ==
    [][ LapCompleted
        => /\ ~ReportedLap.valid => app.current_lap_invalid
           /\ HandledLapData.m_currentLapInvalid # 0 => app'.current_lap_invalid ]_vars

\* C35 as claimed: the sector times F1TelemetryApp keeps are never
\* negative, whatever lap-data packets arrive and in whatever order.
C35_AsClaimed ==
    /\ app.sector1_time >= 0
    /\ app.sector2_time >= 0
    /\ app.sector3_time >= 0

-----------------------------------------------------------------------------
(* Properties of F1TelemetryListener's provisional laps *)

\* completed_laps_history holds a record decoded from a session-history
\* packet for lap number n
HistoryRecorded(history, n) ==
    \E k \in 1..Len(history) : history[k].lap_number = n /\ ~history[k].is_event_lap

\* C36 as claimed: a provisional lap in newly_completed_lap_event stays
\* there until completed_laps_history holds a session-history record for
\* its lap number; datagrams that bring no such record leave it in place.
C36_AsClaimed ==
    [][ LET lap == latest_data.newly_completed_lap_event IN
        (lap # NoLap /\ latest_data'.newly_completed_lap_event # lap)
          => HistoryRecorded(latest_data'.completed_laps_history, lap.lap_number) ]_vars

-----------------------------------------------------------------------------
(* The decoders of one lap-data and one session-history datagram *)

\* process_lap_data_packet of the logger on the bytes after the header:
\* the player's entry is taken to start at p * 42
logger_lap_data(payload, p) ==
    LET offset_to_player_lap_data == p * LAP_DATA_SINGLE_CAR_SIZE IN
    [last_lap_time_ms |-> U32(payload, offset_to_player_lap_data),
     current_lap_num |-> U8(payload, offset_to_player_lap_data + CURRENT_LAP_NUM_OFFSET)]

\* PacketLapData.m_lapData[p] of the ctypes structures: 43-byte entries,
\* the fields at their offsets in LapData
ctypes_lap_data(payload, p) ==
    LET offset == p * WIRE_LAP_DATA_SIZE IN
    [m_lastLapTimeInMS |-> U32(payload, offset),
     m_currentLapTimeInMS |-> U32(payload, offset + 4),
     m_currentLapNum |-> U8(payload, offset + 25),
     m_sector |-> U8(payload, offset + 28),
     m_currentLapInvalid |-> U8(payload, offset + 29)]

\* F1TelemetryListener decodes a lap-data datagram that holds the whole
\* 43-byte entry of the header's player car
WholeLapEntryHandled ==
    /\ F1PayloadHandled
    /\ f1_data.pid = 2
    /\ HasBytes(f1_data.payload, f1_data.pci * WIRE_LAP_DATA_SIZE, WIRE_LAP_DATA_SIZE)

\* C37 as claimed: for the same datagram and player index the logger, the
\* ctypes structures and F1TelemetryListener read the player's entry at
\* byte 24 + 43 * p with the lap number at entry offset 25, the sector at
\* 28 and the lap-invalid flag at 29, and so obtain the same lap number,
\* sector and validity.
C37_AsClaimed ==
    [][ WholeLapEntryHandled
        => LET wire == ctypes_lap_data(f1_data.payload, f1_data.pci)
               logger == logger_lap_data(f1_data.payload, f1_data.pci)
           IN /\ logger.current_lap_num = wire.m_currentLapNum
              /\ logger.last_lap_time_ms = wire.m_lastLapTimeInMS
              /\ latest_data'.current_lap_num = wire.m_currentLapNum
              /\ latest_data'.current_sector = wire.m_sector + 1
              /\ latest_data'.current_lap_invalid = (wire.m_currentLapInvalid # 0) ]_vars

\* process_session_history_packet of the logger on the bytes after the
\* header: the entry of lap n, unpacked with '<IHHHB' at 7 + 11 * (n - 1)
logger_history_entry(payload, n) ==
    LET offset_for_this_lap_history ==
            SESSION_HISTORY_LEAD_DATA_SIZE + (n - 1) * LAP_HISTORY_ENTRY_SIZE
    IN [lap_time_ms |-> U32(payload, offset_for_this_lap_history),
        s1 |-> U16(payload, offset_for_this_lap_history + 4),
        s2 |-> U16(payload, offset_for_this_lap_history + 6),
        s3 |-> U16(payload, offset_for_this_lap_history + 8),
        flags |-> U8(payload, offset_for_this_lap_history + 10)]

\* the record the logger's reading of lap n amounts to
LoggerRecord(payload, n) ==
    LET e == logger_history_entry(payload, n)
    IN CompletedLap(n, e.lap_time_ms, e.s1, e.s2, e.s3, is_valid_lap(e.flags), FALSE)

\* C38 as claimed: a record F1TelemetryListener adds to
\* completed_laps_history from a session-history packet holds, for its lap
\* number n, the lap time, sector times and validity of the 11-byte entry
\* at byte 24 + 7 + 11 * (n - 1), which is what the logger reads for lap n.
C38_AsClaimed ==
    [][ (F1PayloadHandled /\ f1_data.pid = 11)
        => \A i \in 1..Len(latest_data'.completed_laps_history) :
              LET lap == latest_data'.completed_laps_history[i] IN
              (/\ ~lap.is_event_lap
               /\ ~HistoryRecorded(latest_data.completed_laps_history, lap.lap_number))
                => lap = LoggerRecord(f1_data.payload, lap.lap_number) ]_vars

-----------------------------------------------------------------------------
(* Properties of DataLogger's lap files *)

\* C39 as claimed: every record in the file saved under lap number L has
\* lap_number = L.
C39_AsClaimed ==
    \A i \in 1..Len(data_logger.files) :
        \A j \in 1..Len(data_logger.files[i].rows) :
            data_logger.files[i].rows[j].lap_number = data_logger.files[i].lap_number
====
